---- MODULE Spec2Model ----
(***************************************************************************)
(* Model of alembic-visual-manager (src/src/services/alembicService.ts):   *)
(*   - the webview's graph queries (isAncestor),                           *)
(*   - GraphViewProvider: refreshes, inbound commands, confirmation        *)
(*     prompts, the debounce timer and panel disposal,                     *)
(*   - the dependency rewrite of modifyDependency on an artifact text.     *)
(* Each part has its own specification; the variables of the other parts   *)
(* stay at their initial values.                                           *)
(***************************************************************************)
EXTENDS Integers, Sequences, FiniteSets, TLC

(* ------------------------------ bounds -------------------------------- *)
\* longest node sequence held by the webview
MaxNodes == 3

\* revision identifiers ([a-f0-9]+) and the absent parent (null)
Ids == {"a1", "b2", "c3"}
Null == "null"

VARIABLES
    \* webview script state (lines 709-723) and one isAncestor call
    revisions,      \* let revisions = []: the node sequence of the last updateRevisions
    ancestor,       \* index of the `ancestor` argument in revisions
    descendant,     \* index of the `descendant` argument in revisions
    current,        \* local `current` of isAncestor: an index, 0 = undefined
    ancPc,          \* position in isAncestor: "call", "while", "body", "done"
    ancResult       \* value returned by isAncestor

ancVars == <<revisions, ancestor, descendant, current, ancPc, ancResult>>

VARIABLES
    \* modifyDependency's text computation (lines 492-518)
    text,           \* const text = document.getText(): a sequence of tokens
    newParent,      \* the newParent argument
    updatedText,    \* let updatedText
    rwPc            \* "text": text read, "done": updatedText computed

rwVars == <<text, newParent, updatedText, rwPc>>

VARIABLES
    \* GraphViewProvider (lines 264-534) and what it does to its surroundings
    panel,          \* this.panel is defined
    fileWatcher,    \* this.fileWatcher is defined
    configWatcher,  \* this.configWatcher is defined
    refreshTimer,   \* this.refreshTimer: "undefined", "pending" or "fired"
    armed,          \* timeouts set by setTimeout and neither fired nor cleared
    rendered,       \* the webview of this.panel has rendered a graph
    refs,           \* the loadRevisions runs started so far, in start order
    cmds,           \* the inbound command handlers started so far, in start order
    posted,         \* messages posted to the webview, in order
    cliRuns,        \* CLI processes spawned: [by, args]
    notes,          \* vscode.window.show{Error,Warning,Information}Message calls
    fileOps         \* openTextDocument / applyEdit / save / showTextDocument calls

pvVars == <<panel, fileWatcher, configWatcher, refreshTimer, armed, rendered,
            refs, cmds, posted, cliRuns, notes, fileOps>>
VARIABLES
    \* one isApplied call of the webview (lines 912-914), on `revisions`
    revision,       \* index of the `revision` argument in revisions
    apPc,           \* "call": called, "done": returned
    apResult        \* value returned by isApplied

apVars == <<revision, apPc, apResult>>

VARIABLES
    \* AlembicService.getHistory after its three commands (lines 86-89)
    currentOutput,      \* stdout of `alembic current`: a sequence of lines
    headsOutput,        \* stdout of `alembic heads`: a sequence of lines
    output,             \* historyOutput: a sequence of lines
    currentRevisions,   \* array returned by parseCurrentRevisions
    headRevisions,      \* array returned by parseHeadRevisions
    history,            \* array returned by parseHistory
    ghPc                \* "outputs", "current", "heads", "done"

ghVars == <<currentOutput, headsOutput, output, currentRevisions, headRevisions,
            history, ghPc>>

VARIABLES
    \* parseHistory calls of one service, line by line (lines 95-173)
    scInputs,       \* the (output, currentRevisions, headRevisions) the caller may pass
    scInput,        \* the arguments of the call in progress or last made
    scI,            \* the loop index i, from 1
    scAcc,          \* the locals revisions, currentRevision, messageLines, inMessage
    scLog,          \* the calls that returned: arguments and returned array
    scPc            \* "idle": not in a call, "loop": in the for loop

scVars == <<scInputs, scInput, scI, scAcc, scLog, scPc>>

VARIABLES
    \* one runAlembicCommand call (lines 45-77)
    stdout,         \* let stdout: the chunks appended so far
    stderr,         \* let stderr: the chunks appended so far
    procState,      \* the child process: "running" or "closed"
    errored,        \* the process has emitted 'error'
    closeCode,      \* the code passed to 'close', "none" before
    promise,        \* the returned promise: "pending", "resolved", "rejected"
    settledWith     \* the value it resolved with or the reason it rejected with

cmVars == <<stdout, stderr, procState, errored, closeCode, promise, settledWith>>

VARIABLES
    \* webview script state around node clicks (lines 709-723, 925-971)
    modifyMode,             \* let modifyMode
    selectedNode,           \* let selectedNode: a node object, NoNode = null
    isDragging,             \* let isDragging
    justFinishedDragging,   \* let justFinishedDragging
    actuallyDragged,        \* let actuallyDragged
    renders,                \* updateRevisions messages handled: each brings new node objects
    events,                 \* updateRevisions messages, node clicks and drags handled
    clickTimeouts,          \* pending setTimeout(..., 10) callbacks, each with its `revision`
    dragTimeouts,           \* pending setTimeout(..., 100) callbacks of handleNodeDragEnd
    sent,                   \* messages the script posted to the extension
    shownMessage            \* text of the last showMessage call, "" before the first

wvVars == <<modifyMode, selectedNode, isDragging, justFinishedDragging, actuallyDragged,
            renders, events, clickTimeouts, dragTimeouts, sent, shownMessage>>

vars == <<ancVars, rwVars, pvVars, apVars, ghVars, scVars, cmVars, wvVars>>

\* the other parts at rest
IdleAnc ==
    /\ revisions = <<>> /\ ancestor = 0 /\ descendant = 0
    /\ current = 0 /\ ancPc = "idle" /\ ancResult = FALSE
IdleRw ==
    /\ text = <<>> /\ newParent = "" /\ updatedText = <<>> /\ rwPc = "idle"
IdlePv ==
    /\ panel = FALSE
    /\ fileWatcher = FALSE /\ configWatcher = FALSE
    /\ refreshTimer = "undefined" /\ armed = 0 /\ rendered = FALSE
    /\ refs = <<>> /\ cmds = <<>> /\ posted = <<>>
    /\ cliRuns = {} /\ notes = {} /\ fileOps = {}

IdleAp ==
    /\ revision = 0 /\ apPc = "idle" /\ apResult = FALSE
IdleGh ==
    /\ currentOutput = <<>> /\ headsOutput = <<>> /\ output = <<>>
    /\ currentRevisions = <<>> /\ headRevisions = <<>> /\ history = <<>>
    /\ ghPc = "idle"

IdleSc ==
    /\ scInputs = {} /\ scInput = <<>> /\ scI = 0 /\ scAcc = <<>>
    /\ scLog = <<>> /\ scPc = "unused"
IdleCm ==
    /\ stdout = <<>> /\ stderr = <<>> /\ procState = "none" /\ errored = FALSE
    /\ closeCode = "none" /\ promise = "none" /\ settledWith = <<>>
\* selectedNode = null
NoNode == [id |-> Null, pos |-> 0, gen |-> 0]
IdleWv ==
    /\ modifyMode = FALSE /\ selectedNode = NoNode
    /\ isDragging = FALSE /\ justFinishedDragging = FALSE /\ actuallyDragged = FALSE
    /\ renders = 0 /\ events = 0 /\ clickTimeouts = <<>> /\ dragTimeouts = 0
    /\ sent = <<>> /\ shownMessage = ""

(* ======================= Graph Query Engine =========================== *)
\* a node as the parser emits it (completeRevisionInfo): a non-empty hex id
\* and a parent that is a hex id or null
Nodes == [id : Ids, downRevision : Ids \cup {Null}]

RECURSIVE SeqsUpTo(_, _)
SeqsUpTo(S, n) ==
    IF n = 0 THEN {<<>>}
    ELSE LET shorter == SeqsUpTo(S, n - 1)
         IN  shorter \cup {Append(s, x) : s \in {t \in shorter : Len(t) = n - 1}, x \in S}

FindHeadOnly(revs, id) == IF Len(revs) > 0 /\ revs[1].id = id THEN 1 ELSE 0
\* revisions.find(r => r.id === id): the first node with that id, 0 = undefined
Find(revs, id) ==
    IF \E i \in 1..Len(revs) : revs[i].id = id
    THEN CHOOSE i \in 1..Len(revs) :
            revs[i].id = id /\ \A j \in 1..(i - 1) : revs[j].id # id
    ELSE 0

\* while (current && current.downRevision)
WhileCond(cur) == cur # 0 /\ revisions[cur].downRevision # Null

LinkHitsSelf(cur, anc) == revisions[cur].id = revisions[anc].id
\* if (current.downRevision === ancestor.id)
LinkHits(cur, anc) == revisions[cur].downRevision = revisions[anc].id

ExitValueTrue == TRUE
\* return false, after the loop
ExitValue == FALSE

InitAnc ==
    /\ revisions \in SeqsUpTo(Nodes, MaxNodes) \ {<<>>}
    /\ ancestor \in 1..Len(revisions)
    /\ descendant \in 1..Len(revisions)
    /\ current = 0
    /\ ancPc = "call"
    /\ ancResult = FALSE
    /\ IdleRw /\ IdlePv /\ IdleAp /\ IdleGh /\ IdleSc /\ IdleCm /\ IdleWv

\* let current = descendant
AncEnter ==
    /\ ancPc = "call"
    /\ current' = descendant
    /\ ancPc' = "while"
    /\ UNCHANGED <<wvVars, revisions, ancestor, descendant, ancResult, rwVars, pvVars, apVars, ghVars, scVars, cmVars>>

\* the loop condition; when it fails the function returns false
AncWhile ==
    /\ ancPc = "while"
    /\ IF WhileCond(current)
       THEN ancPc' = "body" /\ UNCHANGED ancResult
       ELSE ancPc' = "done" /\ ancResult' = ExitValue
    /\ UNCHANGED <<wvVars, revisions, ancestor, descendant, current, rwVars, pvVars, apVars, ghVars, scVars, cmVars>>

\* the loop body: return true on a hit, else step to the parent node
AncBody ==
    /\ ancPc = "body"
    /\ IF LinkHits(current, ancestor)
       THEN ancPc' = "done" /\ ancResult' = TRUE /\ UNCHANGED current
       ELSE /\ current' = Find(revisions, revisions[current].downRevision)
            /\ ancPc' = "while"
            /\ UNCHANGED ancResult
    /\ UNCHANGED <<wvVars, revisions, ancestor, descendant, rwVars, pvVars, apVars, ghVars, scVars, cmVars>>

NextAnc == AncEnter \/ AncWhile \/ AncBody

\* the walk is a synchronous loop: the engine keeps running it
SpecAncestor == InitAnc /\ [][NextAnc]_vars /\ WF_vars(NextAnc)

(* ---- isAncestor as a function of the node sequence and two positions --- *)
\* the loop of isAncestor from `cur` on: "true" or "false" as returned, "never"
\* when the loop does not end. The walk is deterministic in `cur`, so a loop
\* that has run Len(revs) + 1 times without returning has met a node twice.
RECURSIVE Walk(_, _, _, _)
Walk(revs, ancId, cur, fuel) ==
    IF ~(cur # 0 /\ revs[cur].downRevision # Null) THEN "false"
    ELSE IF revs[cur].downRevision = ancId THEN "true"
    ELSE IF fuel = 0 THEN "never"
    ELSE Walk(revs, ancId, Find(revs, revs[cur].downRevision), fuel - 1)

\* isAncestor(revs[a], revs[b]) with `revisions` holding revs
IsAncestor(revs, a, b) == Walk(revs, revs[a].id, b, Len(revs))

(* ---- reachability over parent links, as a fixpoint (for the claims) --- *)
ParentIdx(i) ==
    IF revisions[i].downRevision = Null THEN 0
    ELSE Find(revisions, revisions[i].downRevision)

RECURSIVE Closure(_)
Closure(S) ==
    LET T == (S \cup {ParentIdx(i) : i \in S}) \ {0}
    IN  IF T = S THEN S ELSE Closure(T)

\* the ids named by the downRevision links met on the chain that starts at b
LinksFrom(b) == {revisions[n].downRevision : n \in Closure({b})} \ {Null}

\* a's id is reached from b in one or more hops
Reach1(a, b) == revisions[a].id \in LinksFrom(b)

\* no node's chain of parent links leads back to its own id
Acyclic == \A n \in 1..Len(revisions) : ~Reach1(n, n)

\* C1: isAncestor(a, b) terminates for every node sequence and pair of nodes,
\* also when the downRevision links form a cycle that does not contain a.
C1_Terminates == <>(ancPc = "done")

\* C9 as stated: isAncestor(a, b) is true iff a is reached from b in zero or
\* more hops (zero hops: a is b).
C9_ZeroOrMoreHops ==
    ancPc = "done" => (ancResult <=> (ancestor = descendant \/ Reach1(ancestor, descendant)))

\* C9 amended: isAncestor(a, b) returns true iff a's id is reached from b by
\* following downRevision links one or more hops.
C9_OneOrMoreHops ==
    ancPc = "done" => (ancResult <=> Reach1(ancestor, descendant))

\* C9 witness: a true answer that needed two hops
C9_Witness ==
    /\ ancPc = "done" /\ ancResult
    /\ ancestor # descendant
    /\ revisions[descendant].downRevision # revisions[ancestor].id

\* C10 as stated: isAncestor(n, n) is false for every node of every sequence
\* the parser can produce.
C10_Irreflexive ==
    (ancPc = "done" /\ ancestor = descendant) => ~ancResult

\* C10 amended: isAncestor(n, n) is false for every node n of every sequence
\* whose downRevision links form no cycle.
C10_IrreflexiveAcyclic ==
    (ancPc = "done" /\ ancestor = descendant /\ Acyclic) => ~ancResult

\* C10 witness: a node with a parent, in an acyclic sequence, tested against itself
C10_Witness ==
    /\ ancPc = "done" /\ ancestor = descendant /\ Acyclic
    /\ revisions[descendant].downRevision # Null
    /\ ParentIdx(descendant) # 0
    /\ ~ancResult

\* the node sequence in another order: position i holds the node of p[i]
Permuted(p) == [i \in 1..Len(revisions) |-> revisions[p[i]]]

\* isAncestor gives, for the pair of this call, the same outcome in every order
SameInEveryOrder ==
    \A p \in Permutations(1..Len(revisions)) :
        \A a, b \in 1..Len(revisions) :
            (p[a] = ancestor /\ p[b] = descendant)
                => IsAncestor(Permuted(p), a, b) = IsAncestor(revisions, ancestor, descendant)

DistinctIds ==
    \A i, j \in 1..Len(revisions) : revisions[i].id = revisions[j].id => i = j

\* the call that has returned gave the value of the function
ReturnedValue ==
    ancPc = "done" =>
        IsAncestor(revisions, ancestor, descendant) = (IF ancResult THEN "true" ELSE "false")

IsCurrentNever(revs, n) == FALSE
\* revision.isCurrent, r.isCurrent
IsCurrent(revs, n) == revs[n].isCurrent

\* revisions.some(r => r.isCurrent && isAncestor(revision, r)) from position r
\* on: the nodes are tried in order, and a call that does not return holds up
\* the rest
RECURSIVE Some(_, _, _)
SomeFirstCurrent(revs, n, r) ==
    IF r > Len(revs) THEN "false"
    ELSE IF IsCurrent(revs, r) THEN IsAncestor(revs, n, r)
    ELSE Some(revs, n, r + 1)
Some(revs, n, r) ==
    IF r > Len(revs) THEN "false"
    ELSE IF IsCurrent(revs, r) /\ IsAncestor(revs, n, r) # "false"
         THEN IsAncestor(revs, n, r)
    ELSE Some(revs, n, r + 1)

\* return revision.isCurrent || revisions.some(...)
IsApplied(revs, n) ==
    IF IsCurrent(revs, n) THEN "true" ELSE Some(revs, n, 1)

\* the nodes of an updateRevisions message: isCurrent is set from the node's id
\* and the current listing (completeRevisionInfo)
WithCurrent(s, cur) ==
    [i \in 1..Len(s) |->
        [id |-> s[i].id, downRevision |-> s[i].downRevision, isCurrent |-> s[i].id \in cur]]

InitApplied ==
    /\ \E s \in SeqsUpTo(Nodes, MaxNodes) \ {<<>>}, cur \in SUBSET Ids :
            revisions = WithCurrent(s, cur)
    /\ revision \in 1..Len(revisions)
    /\ apPc = "call"
    /\ apResult = FALSE
    /\ ancestor = 0 /\ descendant = 0 /\ current = 0
    /\ ancPc = "idle" /\ ancResult = FALSE
    /\ IdleRw /\ IdlePv /\ IdleGh /\ IdleSc /\ IdleCm /\ IdleWv

\* isApplied(revision) returns; a call whose walk never ends stays where it is
IsAppliedReturns ==
    /\ apPc = "call"
    /\ IsApplied(revisions, revision) # "never"
    /\ apResult' = (IsApplied(revisions, revision) = "true")
    /\ apPc' = "done"
    /\ UNCHANGED <<wvVars, revision, ancVars, rwVars, pvVars, ghVars, scVars, cmVars>>

NextApplied == IsAppliedReturns

SpecApplied == InitApplied /\ [][NextApplied]_vars

\* C12: isApplied(n) is true for every node n with isCurrent = true, in every
\* graph (the call returns, and returns true).
C12_CurrentIsApplied ==
    /\ (apPc = "call" /\ revisions[revision].isCurrent) => ENABLED IsAppliedReturns
    /\ (apPc = "done" /\ revisions[revision].isCurrent) => apResult

\* C12 witness: a current node whose chain of parents never ends was found applied
C12_Witness ==
    /\ apPc = "done" /\ apResult
    /\ revisions[revision].isCurrent
    /\ revisions[revision].downRevision = revisions[revision].id

C13_WitnessNotApplied ==
    /\ apPc = "done" /\ ~apResult
    /\ \E c \in 1..Len(revisions) : revisions[c].isCurrent

\* graphs of up to four nodes: two nodes that share an id, a node that links
\* to that id, and the parent of the second of the two
MaxGraph == 4

InitClosure ==
    /\ \E s \in SeqsUpTo(Nodes, MaxGraph) \ {<<>>}, cur \in SUBSET Ids :
            revisions = WithCurrent(s, cur)
    /\ revision \in 1..Len(revisions)
    /\ apPc = "call"
    /\ apResult = FALSE
    /\ ancestor = 0 /\ descendant = 0 /\ current = 0
    /\ ancPc = "idle" /\ ancResult = FALSE
    /\ IdleRw /\ IdlePv /\ IdleGh /\ IdleSc /\ IdleCm /\ IdleWv

SpecClosure == InitClosure /\ [][NextApplied]_vars

\* C36: when isApplied(n) is true and n.downRevision is the id of a node p of
\* the graph, isApplied(p) is true.  Stated for the graphs without a cycle of
\* parent links, where every call of isApplied returns.
C36_ClosedUnderParents ==
    (apPc = "done" /\ apResult /\ Acyclic) =>
        \A p \in 1..Len(revisions) :
            revisions[p].id = revisions[revision].downRevision =>
                IsApplied(revisions, p) = "true"

(* =================== Dependency Mutation Planner ====================== *)
\* An artifact text is a sequence of tokens: a token stands for a run of
\* characters that the two patterns treat alike.
SP == " "
NL == "NL"
SQ == "'"
DQ == "DQ"
Quotes == {SQ, DQ}
\* \s
WhiteSpace == {SP, NL}
\* the identifier an artifact names as its parent before the rewrite
OldParent == "a1"
\* values of message.newParent: a node id, or a root sentinel
NewParents == {"a1", "b2", "<base>", "None"}

\* docstring lines before the Create Date line: other text, an empty line, and
\* the Revises: line with an identifier, with the template's trailing space, bare
DocLineForms ==
    { <<"Revision ID: c3">>,
      <<>>,
      <<"Revises:", SP, OldParent>>,
      <<"Revises:", SP>>,
      <<"Revises:">> }
\* code lines: revision = '..', and down_revision = '..' | ".." | None | ('..', '..')
CodeLineForms ==
    { <<"revision", SP, "=", SP, SQ, "c3", SQ>>,
      <<"down_revision", SP, "=", SP, SQ, OldParent, SQ>>,
      <<"down_revision", SP, "=", SP, DQ, OldParent, DQ>>,
      <<"down_revision", SP, "=", SP, "None">>,
      <<"down_revision", SP, "=", SP, "(", SQ, OldParent, SQ, ",", SP, SQ, "c3", SQ, ")">> }
\* the Create Date line and the line that closes the docstring
CreateDate == <<"Create Date: 2024">>
DocEnd == <<DQ, DQ, DQ>>

\* longest docstring part and code part of an artifact, in lines
MaxDocLines == 3
MaxCodeLines == 2

RECURSIVE JoinLines(_)
JoinLines(ls) ==
    IF ls = <<>> THEN <<>>
    ELSE IF Len(ls) = 1 THEN ls[1]
    ELSE ls[1] \o <<NL>> \o JoinLines(Tail(ls))

\* the artifacts: docstring lines, Create Date, the closing line, code lines
Artifacts ==
    { JoinLines(d \o <<CreateDate, DocEnd>> \o c) :
        d \in SeqsUpTo(DocLineForms, MaxDocLines), c \in SeqsUpTo(CodeLineForms, MaxCodeLines) }

\* first index k >= j whose token is not in S (Len(t) + 1 when there is none)
SkipWhile(t, j, S) ==
    CHOOSE k \in j..(Len(t) + 1) :
        /\ (k = Len(t) + 1 \/ t[k] \notin S)
        /\ \A m \in j..(k - 1) : t[m] \in S

\* first index k >= j whose token is in S (Len(t) + 1 when there is none)
SkipUntil(t, j, S) ==
    CHOOSE k \in j..(Len(t) + 1) :
        /\ (k = Len(t) + 1 \/ t[k] \in S)
        /\ \A m \in j..(k - 1) : t[m] \notin S

Splice(t, from, to, repl) ==
    SubSeq(t, 1, from - 1) \o repl \o SubSeq(t, to, Len(t))

\* /^Revises:\s*[^\r\n]*/m : starts of a match, and the index after the match
RevisesStarts(t) ==
    {i \in 1..Len(t) : t[i] = "Revises:" /\ (i = 1 \/ t[i - 1] = NL)}
RevisesEnd(t, i) == SkipUntil(t, SkipWhile(t, i + 1, WhiteSpace), {NL})

Min(S) == CHOOSE x \in S : \A y \in S : x <= y

\* updatedText.replace(/^Revises:\s*[^\r\n]*/m, repl): the first match only
ReplaceRevises(t, repl) ==
    IF RevisesStarts(t) = {} THEN t
    ELSE LET i == Min(RevisesStarts(t))
         IN  Splice(t, i, RevisesEnd(t, i), repl)

\* /down_revision\s*=\s*['"][^'"]*['"]/ : index after a match that starts at
\* i, 0 when there is no match at i
AssignEnd(t, i) ==
    LET eq == SkipWhile(t, i + 1, WhiteSpace)
        q1 == SkipWhile(t, eq + 1, WhiteSpace)
        q2 == SkipUntil(t, q1 + 1, Quotes)
    IN  IF /\ t[i] = "down_revision"
           /\ eq <= Len(t) /\ t[eq] = "="
           /\ q1 <= Len(t) /\ t[q1] \in Quotes
           /\ q2 <= Len(t)
        THEN q2 + 1
        ELSE 0
AssignStarts(t) == {i \in 1..Len(t) : AssignEnd(t, i) # 0}

\* updatedText.replace(/down_revision\s*=\s*['"][^'"]*['"]/, repl)
ReplaceAssign(t, repl) ==
    IF AssignStarts(t) = {} THEN t
    ELSE LET i == Min(AssignStarts(t))
         IN  Splice(t, i, AssignEnd(t, i), repl)

IsRootSentinelBaseOnly(p) == p = "<base>"
\* newParent === '<base>' || newParent === 'None'
IsRootSentinel(p) == p = "<base>" \/ p = "None"

\* lines 494-518: the two replacements, then the root case
ModifiedText(t, p) ==
    LET t1 == ReplaceRevises(t, <<"Revises:", SP, p>>)
        t2 == ReplaceAssign(t1, <<"down_revision", SP, "=", SP, DQ, p, DQ>>)
    IN  IF IsRootSentinel(p)
        THEN ReplaceAssign(ReplaceRevises(t2, <<"Revises:">>),
                           <<"down_revision", SP, "=", SP, "None">>)
        ELSE t2

InitRw ==
    /\ text \in Artifacts
    /\ newParent \in NewParents
    /\ updatedText = text
    /\ rwPc = "text"
    /\ IdleAnc /\ IdlePv /\ IdleAp /\ IdleGh /\ IdleSc /\ IdleCm /\ IdleWv

ComputeUpdatedText ==
    /\ rwPc = "text"
    /\ updatedText' = ModifiedText(text, newParent)
    /\ rwPc' = "done"
    /\ UNCHANGED <<wvVars, text, newParent, ancVars, pvVars, apVars, ghVars, scVars, cmVars>>

NextRw == ComputeUpdatedText

SpecRewrite == InitRw /\ [][NextRw]_vars

(* ---- the artifact as lines (for the claims) --------------------------- *)
RECURSIVE Lines(_)
Lines(t) ==
    LET k == SkipUntil(t, 1, {NL})
    IN  IF k > Len(t) THEN <<t>>
        ELSE <<SubSeq(t, 1, k - 1)>> \o Lines(SubSeq(t, k + 1, Len(t)))

IsRevisesLine(l) == Len(l) >= 1 /\ l[1] = "Revises:"
\* down_revision = '<id>' or "<id>"
IsQuotedAssignLine(l) ==
    /\ Len(l) = 7
    /\ SubSeq(l, 1, 4) = <<"down_revision", SP, "=", SP>>
    /\ l[5] \in Quotes /\ l[7] \in Quotes /\ l[6] \notin Quotes
NoneAssignLine == <<"down_revision", SP, "=", SP, "None">>

FirstLine(ls, P(_)) ==
    IF \E i \in 1..Len(ls) : P(ls[i])
    THEN Min({i \in 1..Len(ls) : P(ls[i])})
    ELSE 0

C7_OtherLinesKept ==
    rwPc = "done" =>
        LET L == Lines(text)
            U == Lines(updatedText)
            r == FirstLine(L, IsRevisesLine)
            k == FirstLine(L, IsQuotedAssignLine)
        IN  /\ Len(U) = Len(L)
            /\ \A i \in 1..Len(L) : i \notin {r, k} => U[i] = L[i]

IsAssignLine(l) == Len(l) >= 1 /\ l[1] = "down_revision"

\* C37: with a new parent p that is no root sentinel, an artifact that has a
\* Revises: line and a down_revision assignment reads 'Revises: p' and
\* down_revision = "p" after the rewrite, also when the assignment was
\* down_revision = None.  Stated for the artifacts whose first assignment is
\* a quoted identifier or None.
C37_LocationsAgree ==
    (rwPc = "done" /\ newParent \notin {"<base>", "None"}) =>
        LET L == Lines(text)
            U == Lines(updatedText)
            r == FirstLine(L, IsRevisesLine)
            k == FirstLine(L, IsAssignLine)
            ku == FirstLine(U, IsAssignLine)
        IN  (r # 0 /\ k # 0 /\ (IsQuotedAssignLine(L[k]) \/ L[k] = NoneAssignLine)) =>
                /\ \E i \in 1..Len(U) : U[i] = <<"Revises:", SP, newParent>>
                /\ ku # 0
                /\ U[ku] = <<"down_revision", SP, "=", SP, DQ, newParent, DQ>>

\* C38: the rewrite applied to its own result, with the same new parent,
\* changes nothing.
C38_Idempotent ==
    rwPc = "done" => ModifiedText(updatedText, newParent) = updatedText

(* ========================= GraphViewProvider ========================== *)
\* refreshes and command handlers the model lets start, together
MaxStarted == 3

\* message.revisionId of the inbound commands
Revs == {"r1"}
\* how a CLI process ends: close with code 0, close with another code, 'error'
Exits == {"zero", "nonzero", "error"}
\* what showWarningMessage(..., 'Yes', 'No') resolves to (undefined: dismissed)
Answers == {"Yes", "No", "dismissed"}
\* what a successful `alembic show` printed: a 'Path:' line or none
ShowOutputs == {"path", "nopath"}

CmdTypes == {"openRevisionFile", "upgradeToRevision", "downgradeToRevision",
             "stampRevision", "modifyDependency"}
Prompted == {"downgradeToRevision", "stampRevision", "modifyDependency"}

ByRef(i) == [src |-> "ref", n |-> i]
ByCmd(j) == [src |-> "cmd", n |-> j]
\* show(), the 'ready' message and the debounce timer
ByEvent == [src |-> "event", n |-> 0]

ResolvesAlways(exit) == TRUE
\* process.on('close'): code === 0 resolves, anything else rejects; 'error' rejects
Resolves(exit) == exit = "zero"

\* the rejection's text: stderr || stdout of the process, or the spawn error
Diagnostic(exit) == IF exit = "nonzero" THEN "stderr" ELSE "spawn error"

\* getHistory's three requests, in order; "parsed" when all three returned
NextRequestSkipsCurrent(args) ==
    CASE args = "history" -> "heads"
      [] args = "current" -> "heads"
      [] args = "heads" -> "parsed"
NextRequest(args) ==
    CASE args = "history" -> "current"
      [] args = "current" -> "heads"
      [] args = "heads" -> "parsed"

\* getHistory's catch: throw new Error(`Failed to get Alembic history: ${error}`)
HistoryError(exit) == <<"Failed to get Alembic history", Diagnostic(exit)>>

ConfirmedUnlessNo(answer) == answer # "No"
\* if (confirmed === 'Yes')
Confirmed(answer) == answer = "Yes"

\* getRevisionFilePath: the 'Path:' capture, null when the show command
\* failed or printed no 'Path:' line
GetRevisionFilePath(exit, out) ==
    IF Resolves(exit) /\ out = "path" THEN "path" ELSE Null

AnyFilePath(filePath) == TRUE
\* if (filePath)
HasFilePath(filePath) == filePath # Null

\* loadRevisions as called with this.panel = p: nothing without a panel, else
\* getHistory starts and spawns the history request.  The result is the pair
\* of the new refs and the new cliRuns.
LoadRevisions(p, by) ==
    IF p
    THEN [refs |-> Append(refs, [by |-> by, pc |-> "history", exit |-> "none"]),
          runs |-> cliRuns \cup {[by |-> ByRef(Len(refs) + 1), args |-> "history"]}]
    ELSE [refs |-> refs, runs |-> cliRuns]

RefreshAlways(p, by) == LoadRevisions(TRUE, by)
\* refresh(): if (this.panel) this.loadRevisions()
Refresh(p, by) ==
    IF p THEN LoadRevisions(p, by) ELSE [refs |-> refs, runs |-> cliRuns]

\* room for one more refresh or command handler, and for the refresh an
\* action starts when there is a panel
Room == Len(refs) + Len(cmds) < MaxStarted
RoomFor(p) == p => Room

InitPv ==
    /\ IdlePv
    /\ IdleAnc /\ IdleRw /\ IdleAp /\ IdleGh /\ IdleSc /\ IdleCm /\ IdleWv

NoClear(timer, n) == n
\* if (this.refreshTimer) clearTimeout(this.refreshTimer): disarms a timeout
\* that has not fired, and does nothing with the handle of one that has
ClearTimeout(timer, n) == IF timer = "pending" THEN n - 1 ELSE n

SuccessMessagesSwapped(i) ==
    <<[type |-> "refreshComplete", ref |-> i, data |-> <<>>],
      [type |-> "updateRevisions", ref |-> i, data |-> <<>>]>>
\* the two postMessage calls of loadRevisions after getHistory returned
SuccessMessages(i) ==
    <<[type |-> "updateRevisions", ref |-> i, data |-> <<>>],
      [type |-> "refreshComplete", ref |-> i, data |-> <<>>]>>

\* show() without a panel: create it, set up message handling and the two
\* watchers, start a refresh.  (With a panel show() only reveals it.)
Show ==
    /\ ~panel
    /\ RoomFor(TRUE)
    /\ panel' = TRUE
    /\ fileWatcher' = TRUE
    /\ configWatcher' = TRUE
    /\ LET r == LoadRevisions(TRUE, ByEvent)
       IN  refs' = r.refs /\ cliRuns' = r.runs
    /\ UNCHANGED <<wvVars, refreshTimer, rendered, cmds, posted, notes, fileOps, ancVars,
                   rwVars, apVars, ghVars, scVars, cmVars, armed>>

\* panel.onDidDispose: cleanup(), then this.panel = undefined
Dispose ==
    /\ panel
    /\ fileWatcher' = FALSE
    /\ configWatcher' = FALSE
    /\ armed' = ClearTimeout(refreshTimer, armed)
    /\ refreshTimer' = "undefined"
    /\ panel' = FALSE
    /\ rendered' = FALSE
    /\ UNCHANGED <<wvVars, refs, cmds, posted, cliRuns, notes, fileOps, ancVars,
                   rwVars, apVars, ghVars, scVars, cmVars>>

\* a watcher event: scheduleRefresh() clears the timer and sets a new one
FileChange ==
    /\ fileWatcher \/ configWatcher
    /\ armed <= MaxStarted
    /\ armed' = ClearTimeout(refreshTimer, armed) + 1
    /\ refreshTimer' = "pending"
    /\ UNCHANGED <<wvVars, panel, fileWatcher, configWatcher, rendered, refs, cmds,
                   posted, cliRuns, notes, fileOps, ancVars,
                   rwVars, apVars, ghVars, scVars, cmVars>>

\* a timeout set by scheduleRefresh fires: this.refresh().  this.refreshTimer
\* keeps the handle; it is the handle of a fired timeout once none is armed.
TimerFires ==
    /\ armed > 0
    /\ RoomFor(panel)
    /\ armed' = armed - 1
    /\ refreshTimer' = IF armed = 1 THEN "fired" ELSE refreshTimer
    /\ LET r == Refresh(panel, ByEvent)
       IN  refs' = r.refs /\ cliRuns' = r.runs
    /\ UNCHANGED <<wvVars, panel, fileWatcher, configWatcher, rendered, cmds, posted,
                   notes, fileOps, ancVars,
                   rwVars, apVars, ghVars, scVars, cmVars>>

\* case 'ready' (the webview's load event and its Refresh button)
MsgReady ==
    /\ panel
    /\ RoomFor(panel)
    /\ LET r == LoadRevisions(panel, ByEvent)
       IN  refs' = r.refs /\ cliRuns' = r.runs
    /\ UNCHANGED <<wvVars, panel, fileWatcher, configWatcher, refreshTimer, rendered,
                   cmds, posted, notes, fileOps, ancVars,
                   rwVars, apVars, ghVars, scVars, cmVars, armed>>

\* an inbound command message: its handler runs to its first await.  The
\* prompted commands wait for the answer; upgradeToRevision spawns the
\* upgrade and openRevisionFile the show command at once.  The webview
\* sends a node's commands from a rendered graph, and upgradeToRevision
\* also from its toolbar.
MsgCommand(type, rev) ==
    /\ panel
    /\ rendered \/ type = "upgradeToRevision"
    /\ Room
    /\ LET j == Len(cmds) + 1
           pc == CASE type \in Prompted -> "prompt"
                   [] type = "upgradeToRevision" -> "cli"
                   [] type = "openRevisionFile" -> "show"
       IN  /\ cmds' = Append(cmds, [type |-> type, rev |-> rev, pc |-> pc,
                                    answer |-> "none", filePath |-> "unset"])
           /\ cliRuns' = CASE pc = "prompt" -> cliRuns
                           [] pc = "cli" -> cliRuns \cup {[by |-> ByCmd(j), args |-> "upgrade"]}
                           [] pc = "show" -> cliRuns \cup {[by |-> ByCmd(j), args |-> "show"]}
    /\ UNCHANGED <<wvVars, panel, fileWatcher, configWatcher, refreshTimer, rendered,
                   refs, posted, notes, fileOps, ancVars,
                   rwVars, apVars, ghVars, scVars, cmVars, armed>>

\* the confirmation prompt of downgradeToRevision, stampRevision or
\* modifyDependency resolves
PromptAnswered(j, answer) ==
    /\ cmds[j].pc = "prompt"
    /\ LET args == CASE cmds[j].type = "downgradeToRevision" -> "downgrade"
                     [] cmds[j].type = "stampRevision" -> "stamp"
                     [] cmds[j].type = "modifyDependency" -> "show"
       IN  IF Confirmed(answer)
           THEN /\ cmds' = [cmds EXCEPT ![j].answer = answer,
                                        ![j].pc = IF args = "show" THEN "show" ELSE "cli"]
                /\ cliRuns' = cliRuns \cup {[by |-> ByCmd(j), args |-> args]}
           ELSE /\ cmds' = [cmds EXCEPT ![j].answer = answer, ![j].pc = "done"]
                /\ UNCHANGED cliRuns
    /\ UNCHANGED <<wvVars, panel, fileWatcher, configWatcher, refreshTimer, rendered,
                   refs, posted, notes, fileOps, ancVars,
                   rwVars, apVars, ghVars, scVars, cmVars, armed>>

\* the upgrade, downgrade or stamp process ends: on success a notice and
\* this.refresh(), on failure an error notice
CommandCliEnds(j, exit) ==
    /\ cmds[j].pc = "cli"
    /\ Resolves(exit) => RoomFor(panel)
    /\ cmds' = [cmds EXCEPT ![j].pc = "done"]
    /\ IF Resolves(exit)
       THEN /\ notes' = notes \cup {[kind |-> "info", by |-> ByCmd(j), msg |-> <<"Successfully">>]}
            /\ LET r == Refresh(panel, ByCmd(j))
               IN  refs' = r.refs /\ cliRuns' = r.runs
       ELSE /\ notes' = notes \cup {[kind |-> "error", by |-> ByCmd(j), msg |-> <<"Failed">>]}
            /\ UNCHANGED <<wvVars, refs, cliRuns>>
    /\ UNCHANGED <<wvVars, panel, fileWatcher, configWatcher, refreshTimer, rendered,
                   posted, fileOps, ancVars,
                   rwVars, apVars, ghVars, scVars, cmVars, armed>>

\* the show process of getRevisionFilePath ends.  With a path the document
\* is opened; without one the command ends with a notice (an error notice
\* in modifyDependency, a warning in openRevisionFile).
ShowCliEnds(j, exit, out) ==
    /\ cmds[j].pc = "show"
    /\ ~Resolves(exit) => out = "nopath"
    /\ LET filePath == GetRevisionFilePath(exit, out)
       IN  IF HasFilePath(filePath)
           THEN /\ cmds' = [cmds EXCEPT ![j].filePath = filePath, ![j].pc = "open"]
                /\ fileOps' = fileOps \cup {[by |-> ByCmd(j), op |-> "openTextDocument"]}
                /\ UNCHANGED notes
           ELSE /\ cmds' = [cmds EXCEPT ![j].filePath = filePath, ![j].pc = "done"]
                /\ notes' = notes \cup
                     {[kind |-> IF cmds[j].type = "modifyDependency" THEN "error"
                                ELSE "warning",
                       by |-> ByCmd(j), msg |-> <<"Could not find file">>]}
                /\ UNCHANGED fileOps
    /\ UNCHANGED <<wvVars, panel, fileWatcher, configWatcher, refreshTimer, rendered,
                   refs, posted, cliRuns, ancVars,
                   rwVars, apVars, ghVars, scVars, cmVars, armed>>

\* openTextDocument settles: modifyDependency computes the text and applies
\* the edit, openRevisionFile shows the document; a rejection ends the
\* command in its catch
OpenSettles(j, ok) ==
    /\ cmds[j].pc = "open"
    /\ IF ok
       THEN /\ cmds' = [cmds EXCEPT ![j].pc =
                            IF cmds[j].type = "modifyDependency" THEN "edit" ELSE "showdoc"]
            /\ fileOps' = fileOps \cup
                 {[by |-> ByCmd(j),
                   op |-> IF cmds[j].type = "modifyDependency" THEN "applyEdit"
                          ELSE "showTextDocument"]}
            /\ UNCHANGED notes
       ELSE /\ cmds' = [cmds EXCEPT ![j].pc = "done"]
            /\ notes' = notes \cup {[kind |-> "error", by |-> ByCmd(j), msg |-> <<"Failed">>]}
            /\ UNCHANGED fileOps
    /\ UNCHANGED <<wvVars, panel, fileWatcher, configWatcher, refreshTimer, rendered,
                   refs, posted, cliRuns, ancVars,
                   rwVars, apVars, ghVars, scVars, cmVars, armed>>

\* showTextDocument settles: openRevisionFile is over (no refresh)
ShowDocSettles(j) ==
    /\ cmds[j].pc = "showdoc"
    /\ cmds' = [cmds EXCEPT ![j].pc = "done"]
    /\ UNCHANGED <<wvVars, panel, fileWatcher, configWatcher, refreshTimer, rendered,
                   refs, posted, cliRuns, notes, fileOps, ancVars,
                   rwVars, apVars, ghVars, scVars, cmVars, armed>>

\* applyEdit resolves (its boolean is not looked at): document.save()
EditSettles(j) ==
    /\ cmds[j].pc = "edit"
    /\ cmds' = [cmds EXCEPT ![j].pc = "save"]
    /\ fileOps' = fileOps \cup {[by |-> ByCmd(j), op |-> "save"]}
    /\ UNCHANGED <<wvVars, panel, fileWatcher, configWatcher, refreshTimer, rendered,
                   refs, posted, cliRuns, notes, ancVars,
                   rwVars, apVars, ghVars, scVars, cmVars, armed>>

\* document.save() resolves (its boolean is not looked at): a notice and
\* this.refresh()
SaveSettles(j) ==
    /\ cmds[j].pc = "save"
    /\ RoomFor(panel)
    /\ cmds' = [cmds EXCEPT ![j].pc = "done"]
    /\ notes' = notes \cup {[kind |-> "info", by |-> ByCmd(j), msg |-> <<"Successfully">>]}
    /\ LET r == Refresh(panel, ByCmd(j))
       IN  refs' = r.refs /\ cliRuns' = r.runs
    /\ UNCHANGED <<wvVars, panel, fileWatcher, configWatcher, refreshTimer, rendered,
                   posted, fileOps, ancVars,
                   rwVars, apVars, ghVars, scVars, cmVars, armed>>

\* a CLI process of refresh i ends (exit keeps how the latest one ended).
\* Success of history or current spawns the next request.  Success of heads
\* returns the parsed graph and loadRevisions posts updateRevisions and
\* refreshComplete.  A failure is rethrown by getHistory; loadRevisions'
\* catch shows the error and posts it, and the webview's showError hides the
\* graph.  this.panel.webview throws when the panel is gone meanwhile: on
\* the success path into the catch, in the catch out of loadRevisions.
RefreshCliEnds(i, exit) ==
    /\ refs[i].pc \in {"history", "current", "heads"}
    /\ IF Resolves(exit)
       THEN IF NextRequest(refs[i].pc) # "parsed"
            THEN /\ refs' = [refs EXCEPT ![i].pc = NextRequest(refs[i].pc), ![i].exit = exit]
                 /\ cliRuns' = cliRuns \cup {[by |-> ByRef(i), args |-> NextRequest(refs[i].pc)]}
                 /\ UNCHANGED <<wvVars, posted, notes, rendered>>
            ELSE IF panel
                 THEN /\ refs' = [refs EXCEPT ![i].pc = "posted", ![i].exit = exit]
                      /\ posted' = posted \o SuccessMessages(i)
                      /\ rendered' = TRUE
                      /\ UNCHANGED <<wvVars, cliRuns, notes>>
                 ELSE /\ refs' = [refs EXCEPT ![i].pc = "threw", ![i].exit = exit]
                      /\ notes' = notes \cup {[kind |-> "error", by |-> ByRef(i),
                                               msg |-> <<"TypeError">>]}
                      /\ UNCHANGED <<wvVars, cliRuns, posted, rendered>>
       ELSE /\ notes' = notes \cup {[kind |-> "error", by |-> ByRef(i), msg |-> HistoryError(exit)]}
            /\ IF panel
               THEN /\ refs' = [refs EXCEPT ![i].pc = "failed", ![i].exit = exit]
                    /\ posted' = Append(posted, [type |-> "error", ref |-> i,
                                                 data |-> HistoryError(exit)])
                    /\ rendered' = FALSE
               ELSE /\ refs' = [refs EXCEPT ![i].pc = "threw", ![i].exit = exit]
                    /\ UNCHANGED <<wvVars, posted, rendered>>
            /\ UNCHANGED cliRuns
    /\ UNCHANGED <<wvVars, panel, fileWatcher, configWatcher, refreshTimer, cmds,
                   fileOps, ancVars,
                   rwVars, apVars, ghVars, scVars, cmVars, armed>>

NextPv ==
    \/ Show
    \/ Dispose
    \/ FileChange
    \/ TimerFires
    \/ MsgReady
    \/ \E type \in CmdTypes, rev \in Revs : MsgCommand(type, rev)
    \/ \E j \in 1..Len(cmds), answer \in Answers : PromptAnswered(j, answer)
    \/ \E j \in 1..Len(cmds), exit \in Exits : CommandCliEnds(j, exit)
    \/ \E j \in 1..Len(cmds), exit \in Exits, out \in ShowOutputs : ShowCliEnds(j, exit, out)
    \/ \E j \in 1..Len(cmds), ok \in BOOLEAN : OpenSettles(j, ok)
    \/ \E j \in 1..Len(cmds) : ShowDocSettles(j)
    \/ \E j \in 1..Len(cmds) : EditSettles(j)
    \/ \E j \in 1..Len(cmds) : SaveSettles(j)
    \/ \E i \in 1..Len(refs), exit \in Exits : RefreshCliEnds(i, exit)

SpecProvider == InitPv /\ [][NextPv]_vars

\* The panel is open and its webview shows a graph, as after show() and a
\* refresh that succeeded; refreshes, commands, messages, processes, notices
\* and file operations are recorded from here on.
InitShown ==
    /\ panel = TRUE /\ fileWatcher = TRUE /\ configWatcher = TRUE
    /\ refreshTimer = "undefined" /\ armed = 0 /\ rendered = TRUE
    /\ refs = <<>> /\ cmds = <<>> /\ posted = <<>>
    /\ cliRuns = {} /\ notes = {} /\ fileOps = {}
    /\ IdleAnc /\ IdleRw /\ IdleAp /\ IdleGh /\ IdleSc /\ IdleCm /\ IdleWv

SpecShown == InitShown /\ [][NextPv]_vars

\* the timeout set by scheduleRefresh fires when its second has passed
SpecDebounce == InitPv /\ [][NextPv]_vars /\ WF_vars(TimerFires)

(* ---------------------- claims on the provider ------------------------- *)
InFlight == {"history", "current", "heads"}
PostedBy(i) == {k \in 1..Len(posted) : posted[k].ref = i}
RefsBy(j) == {i \in 1..Len(refs) : refs[i].by = ByCmd(j)}
RunsBy(j) == {r \in cliRuns : r.by = ByCmd(j)}
FileOpsBy(j) == {f \in fileOps : f.by = ByCmd(j)}

\* C2: a refresh one of whose three CLI requests failed posts no
\* updateRevisions (and no refreshComplete) message; it reports the failure
\* with the diagnostic, as an error notice and in every message it posts.
C2_NoGraphOnFailure ==
    \A i \in 1..Len(refs) :
        refs[i].exit \in {"nonzero", "error"} =>
            LET diag == IF refs[i].exit = "nonzero" THEN "stderr" ELSE "spawn error"
            IN  /\ \A k \in PostedBy(i) :
                     posted[k].type = "error" /\ posted[k].data[2] = diag
                /\ \E n \in notes :
                     n.kind = "error" /\ n.by = ByRef(i) /\ n.msg[2] = diag

\* C2 witness: the third request (heads) failed and the error was posted
C2_Witness ==
    \E i \in 1..Len(refs) :
        /\ refs[i].pc = "failed"
        /\ [by |-> ByRef(i), args |-> "heads"] \in cliRuns
        /\ PostedBy(i) # {}

\* C3: at most one refresh is in flight at any time.
C3_OneRefreshInFlight ==
    Cardinality({i \in 1..Len(refs) : refs[i].pc \in InFlight}) <= 1

\* C4: while a modifyDependency request is in flight no refresh is in flight
\* and no second modifyDependency request for the same revision is.
C4_MutationSerialized ==
    \A j \in 1..Len(cmds) :
        (cmds[j].type = "modifyDependency" /\ cmds[j].pc # "done") =>
            /\ \A i \in 1..Len(refs) : refs[i].pc \notin InFlight
            /\ \A k \in 1..Len(cmds) :
                 (k # j /\ cmds[k].type = "modifyDependency" /\ cmds[k].pc # "done")
                    => cmds[k].rev # cmds[j].rev

\* C5: a downgrade, a stamp and a dependency modification whose prompt was not
\* answered 'Yes' run no CLI command, open or edit no file, start no refresh.
C5_GatedByConfirmation ==
    \A j \in 1..Len(cmds) :
        (cmds[j].type \in Prompted /\ cmds[j].answer # "Yes") =>
            RunsBy(j) = {} /\ FileOpsBy(j) = {} /\ RefsBy(j) = {}

\* C5 witness: each of the three commands ended on a 'No' or a dismissed prompt
C5_Witness ==
    /\ Len(cmds) >= 2
    /\ cmds[1].type = "modifyDependency" /\ cmds[1].answer = "dismissed"
    /\ cmds[1].pc = "done"
    /\ cmds[2].type \in {"downgradeToRevision", "stampRevision"}
    /\ cmds[2].answer = "No" /\ cmds[2].pc = "done"

\* C8: when getRevisionFilePath returned null, modifyDependency opens no
\* document, applies and saves no edit, starts no refresh, and notifies the user.
C8_NoFileAborts ==
    \A j \in 1..Len(cmds) :
        (cmds[j].type = "modifyDependency" /\ cmds[j].filePath = Null) =>
            /\ FileOpsBy(j) = {}
            /\ RefsBy(j) = {}
            /\ cmds[j].pc = "done"
            /\ \E n \in notes : n.by = ByCmd(j) /\ n.kind = "error"
                                /\ n.msg = <<"Could not find file">>

\* C8 witness: a confirmed modifyDependency whose show command returned no path
C8_Witness ==
    \E j \in 1..Len(cmds) :
        /\ cmds[j].type = "modifyDependency" /\ cmds[j].answer = "Yes"
        /\ cmds[j].filePath = Null
        /\ [by |-> ByCmd(j), args |-> "show"] \in cliRuns

(* ------------------- more claims on the provider ----------------------- *)
\* the refresh whose updateRevisions message the webview handled last, 0 when
\* none was posted
RECURSIVE LastUpdate(_)
LastUpdate(n) ==
    IF n = 0 THEN 0
    ELSE IF posted[n].type = "updateRevisions" THEN posted[n].ref
    ELSE LastUpdate(n - 1)
Saved(j) ==
    /\ cmds[j].type = "modifyDependency" /\ cmds[j].pc = "done"
    /\ [by |-> ByCmd(j), op |-> "save"] \in fileOps
NoneInFlight == \A i \in 1..Len(refs) : refs[i].pc \notin InFlight

\* C24: after a dependency modification was saved, the graph shown once no
\* refresh is pending comes from a refresh started after the save (refreshes
\* are numbered in the order they start, and a refresh requests the history
\* when it starts), never from one that requested the history before it.
\* Stated for the refresh the save started, when it succeeded.
C24_ShownGraphIsAfterSave ==
    \A j \in 1..Len(cmds) :
        (Saved(j) /\ NoneInFlight /\ rendered) =>
            \A r \in RefsBy(j) :
                refs[r].pc = "posted" => LastUpdate(Len(posted)) >= r

\* C25 as stated: every command that has completed is followed by a refresh
\* of its own.
C25_EveryCommandRefreshes ==
    \A j \in 1..Len(cmds) : cmds[j].pc = "done" => RefsBy(j) # {}

Succeeded(j) == [kind |-> "info", by |-> ByCmd(j), msg |-> <<"Successfully">>] \in notes

\* C25: a command starts a refresh when it completes if and only if it is an
\* upgrade, a downgrade, a stamp or a dependency modification that succeeded
\* (was confirmed where it asks, and its CLI command or its save went through)
\* and the panel is still open then; openRevisionFile never starts one, and
\* neither does a declined or failed command.
C25_RefreshIffSucceeded ==
    [][\A j \in 1..Len(cmds) :
          (cmds[j].pc # "done" /\ cmds'[j].pc = "done") =>
              /\ Cardinality({i \in 1..Len(refs') : refs'[i].by = ByCmd(j)}) <= 1
              /\ ({i \in 1..Len(refs') : refs'[i].by = ByCmd(j)} # {}
                    <=> (/\ panel
                         /\ cmds[j].type # "openRevisionFile"
                         /\ [kind |-> "info", by |-> ByCmd(j),
                             msg |-> <<"Successfully">>] \in notes'))]_vars

\* an openRevisionFile that showed its document and completed with the panel
\* open, and no refresh was started by it
C25_Witness ==
    \E j \in 1..Len(cmds) :
        /\ cmds[j].type = "openRevisionFile" /\ cmds[j].pc = "done"
        /\ [by |-> ByCmd(j), op |-> "showTextDocument"] \in fileOps
        /\ panel /\ rendered /\ Room
        /\ RefsBy(j) = {}
        /\ NoneInFlight

\* the types of the messages refresh i posted, in the order of posting
TypesBy(i) ==
    LET mine == SelectSeq(posted, LAMBDA m : m.ref = i)
    IN  [k \in 1..Len(mine) |-> mine[k].type]
Adjacent(i) == \A k, l \in PostedBy(i) : k - l \in {-1, 0, 1}

\* C26 as stated: every refresh whose three requests succeeded posts one
\* updateRevisions and then one refreshComplete; every refresh one of whose
\* requests failed posts one error message.
C26_EveryRefreshPushes ==
    \A i \in 1..Len(refs) :
        /\ (refs[i].pc \notin InFlight /\ refs[i].exit = "zero") =>
              TypesBy(i) = <<"updateRevisions", "refreshComplete">>
        /\ (refs[i].pc \notin InFlight /\ refs[i].exit # "zero") =>
              TypesBy(i) = <<"error">>

\* C26: a refresh that ends while the panel is open posts, when its three
\* requests succeeded, one updateRevisions and right after it one
\* refreshComplete and nothing else, and when a request failed, one error
\* message and nothing else; a refresh that ends after the panel was disposed
\* posts nothing, and so does one that has not ended.
C26_PushesWhilePanelOpen ==
    \A i \in 1..Len(refs) :
        /\ refs[i].pc = "posted" =>
              /\ refs[i].exit = "zero"
              /\ TypesBy(i) = <<"updateRevisions", "refreshComplete">>
              /\ Adjacent(i)
        /\ refs[i].pc = "failed" =>
              refs[i].exit # "zero" /\ TypesBy(i) = <<"error">>
        /\ refs[i].pc \in InFlight \cup {"threw"} => TypesBy(i) = <<>>

\* one refresh posted the graph, a later one failed and posted the error
C26_Witness ==
    /\ Len(refs) >= 2
    /\ refs[1].pc = "posted" /\ refs[2].pc = "failed"
    /\ Len(posted) = 3 /\ posted[3].type = "error"

Order == <<"history", "current", "heads">>
Pos(args) == CASE args = "history" -> 1 [] args = "current" -> 2 [] args = "heads" -> 3
UpTo(n) == {Order[k] : k \in 1..n}
\* the requests refresh i has issued, before and after a step
Issued(i) == {a \in InFlight : [by |-> ByRef(i), args |-> a] \in cliRuns}
IssuedNext(i) == {a \in InFlight : [by |-> ByRef(i), args |-> a] \in cliRuns'}

\* C27: a refresh issues history, then current, then heads, each after the
\* one before it succeeded; when a request fails the refresh ends with what
\* was issued so far, and a refresh that has ended issues nothing more.
C27_RequestsInOrder ==
    [][(refs' # refs \/ cliRuns' # cliRuns) =>
         \A i \in 1..Len(refs) :
            IF refs[i].pc \notin InFlight
            THEN refs'[i] = refs[i] /\ IssuedNext(i) = Issued(i)
            ELSE /\ Issued(i) = UpTo(Pos(refs[i].pc))
                 /\ IF refs'[i] = refs[i] THEN IssuedNext(i) = Issued(i)
                    ELSE IF refs'[i].exit = "zero" /\ Pos(refs[i].pc) < 3
                    THEN /\ refs'[i].pc = Order[Pos(refs[i].pc) + 1]
                         /\ IssuedNext(i) = UpTo(Pos(refs[i].pc) + 1)
                    ELSE /\ refs'[i].pc \notin InFlight
                         /\ IssuedNext(i) = Issued(i)]_vars

\* the history request succeeded, the current request failed, and the heads
\* request was not issued
C27_Witness ==
    \E i \in 1..Len(refs) :
        /\ refs[i].pc = "failed" /\ refs[i].exit = "nonzero"
        /\ Issued(i) = {"history", "current"}

\* a step in which a notification arms the timer, and one in which it fires
Arms == refreshTimer # "pending" /\ refreshTimer' = "pending"
Fires == refreshTimer = "pending" /\ refreshTimer' = "fired"

\* C29: at most one debounce timeout is armed; a notification that arrives
\* while one is armed replaces it, and no notification starts a refresh; the
\* timeout that fires starts exactly one refresh and leaves none armed; and an
\* armed timeout leads to that refresh unless the panel is disposed first
\* (or the model has no room for a refresh).
C29_BurstStartsOneRefresh ==
    /\ [][/\ armed' <= 1
          /\ (refreshTimer' = "pending") <=> (armed' = 1)
          /\ armed' = 1 => panel'
          /\ Arms => refs' = refs
          /\ Fires => /\ armed' = 0
                      /\ Len(refs') = Len(refs) + 1
                      /\ refs'[Len(refs')] = [by |-> ByEvent, pc |-> "history",
                                               exit |-> "none"]]_vars
    /\ (refreshTimer = "pending") ~> (refreshTimer = "fired" \/ ~panel \/ ~Room)

\* two notifications came while the timeout was armed, and the one refresh
\* the timeout started is the only one since the panel was shown
C29_Witness ==
    /\ panel /\ refreshTimer = "fired" /\ armed = 0
    /\ Len(refs) = 2 /\ refs[2].by = ByEvent /\ refs[2].pc = "history"
    /\ refs[1].pc = "posted"

\* C33: a refresh that was waiting for CLI output when the panel was disposed
\* ends without a message and without a failure: no loadRevisions call ends
\* in the TypeError of reading this.panel.webview of an undefined panel.
C33_NoDereferenceAfterDispose ==
    /\ \A i \in 1..Len(refs) : refs[i].pc # "threw"
    /\ \A n \in notes : n.msg # <<"TypeError">>

\* C34: the updateRevisions messages reach the webview in the order in which
\* their refreshes started, so that the last one delivered is that of the
\* refresh started last.
C34_UpdatesInStartOrder ==
    \A k, l \in 1..Len(posted) :
        (k < l /\ posted[k].type = "updateRevisions" /\ posted[l].type = "updateRevisions")
            => posted[k].ref < posted[l].ref

\* C39: while there is no panel no refresh is started, whatever happens (a
\* command that completes, a late timeout); disposal leaves no timeout armed
\* and no watcher, and only show() brings the panel back, with a refresh.
C39_NoRefreshWithoutPanel ==
    [][/\ ~panel' =>
            /\ armed' = 0 /\ refreshTimer' = "undefined"
            /\ ~fileWatcher' /\ ~configWatcher'
       /\ (~panel /\ ~panel') => Len(refs') = Len(refs)
       /\ (~panel /\ panel') =>
            /\ Len(refs') = Len(refs) + 1
            /\ refs'[Len(refs')].by = ByEvent]_vars

\* the panel was disposed while an upgrade was running; the upgrade succeeded
\* afterwards and started no refresh
C39_Witness ==
    /\ ~panel /\ refreshTimer = "undefined" /\ armed = 0
    /\ \E j \in 1..Len(cmds) :
          /\ cmds[j].type = "upgradeToRevision" /\ cmds[j].pc = "done"
          /\ [kind |-> "info", by |-> ByCmd(j), msg |-> <<"Successfully">>] \in notes
          /\ RefsBy(j) = {}
    /\ Len(refs) = 1 /\ refs[1].pc = "threw"

(* ================== Raw Output Source (runAlembicCommand) ============== *)
\* The captured streams are the sequences of the chunks the data events
\* delivered, which is their concatenation; '' is <<>>.
StdoutChunks == {"Rev: b2", "(head)"}
StderrChunks == {"FAILED: no config"}
\* code of the close event: an exit code, or null after a signal
CloseCodes == {"0", "1", "null"}
\* data events of one stream in one invocation
MaxChunks == 2

ZeroOrOutput(code, out) == code = "0" \/ out # <<>>
\* if (code === 0)
CloseSucceeds(code, out) == code = "0"

\* `Alembic command failed: ${stderr || stdout}`
FailureMessage(err, out) ==
    <<"Alembic command failed: ">> \o (IF err # <<>> THEN err ELSE out)
SpawnError == <<"Error: spawn python ENOENT">>

\* resolve(value) and reject(value) of the promise executor: the first call
\* settles the promise, a later one does nothing
Settle(p, log, kind, value) ==
    IF p = "pending"
    THEN [promise |-> kind, log |-> Append(log, [kind |-> kind, value |-> value])]
    ELSE [promise |-> p, log |-> log]

\* the executor has run: the process is spawned, both captures are ''
InitCommand ==
    /\ stdout = <<>> /\ stderr = <<>>
    /\ procState = "running" /\ errored = FALSE /\ closeCode = "none"
    /\ promise = "pending" /\ settledWith = <<>>
    /\ IdleAnc /\ IdleRw /\ IdlePv /\ IdleAp /\ IdleGh /\ IdleSc /\ IdleWv

\* process.stdout.on('data'): stdout += output
StdoutData(chunk) ==
    /\ procState = "running"
    /\ Len(stdout) < MaxChunks
    /\ stdout' = Append(stdout, chunk)
    /\ UNCHANGED <<wvVars, stderr, procState, errored, closeCode, promise, settledWith,
                   ancVars, rwVars, pvVars, apVars, ghVars, scVars>>

\* process.stderr.on('data'): stderr += output
StderrData(chunk) ==
    /\ procState = "running"
    /\ Len(stderr) < MaxChunks
    /\ stderr' = Append(stderr, chunk)
    /\ UNCHANGED <<wvVars, stdout, procState, errored, closeCode, promise, settledWith,
                   ancVars, rwVars, pvVars, apVars, ghVars, scVars>>

\* process.on('error'): reject(error).  The close event may still follow.
OnError ==
    /\ procState = "running"
    /\ ~errored
    /\ errored' = TRUE
    /\ LET r == Settle(promise, settledWith, "rejected", SpawnError)
       IN  promise' = r.promise /\ settledWith' = r.log
    /\ UNCHANGED <<wvVars, stdout, stderr, procState, closeCode,
                   ancVars, rwVars, pvVars, apVars, ghVars, scVars>>

\* process.on('close'): resolve(stdout) or reject(new Error(...))
OnClose(code) ==
    /\ procState = "running"
    /\ procState' = "closed"
    /\ closeCode' = code
    /\ LET r == IF CloseSucceeds(code, stdout)
                THEN Settle(promise, settledWith, "resolved", stdout)
                ELSE Settle(promise, settledWith, "rejected",
                            FailureMessage(stderr, stdout))
       IN  promise' = r.promise /\ settledWith' = r.log
    /\ UNCHANGED <<wvVars, stdout, stderr, errored,
                   ancVars, rwVars, pvVars, apVars, ghVars, scVars>>

NextCommand ==
    \/ \E chunk \in StdoutChunks : StdoutData(chunk)
    \/ \E chunk \in StderrChunks : StderrData(chunk)
    \/ OnError
    \/ \E code \in CloseCodes : OnClose(code)

SpecCommand == InitCommand /\ [][NextCommand]_vars

\* C28: a process that closes with a code other than 0 is reported as a
\* failure, also when it wrote to standard output; a success is reported only
\* for a close with code 0 and carries the whole captured standard output;
\* the promise of an invocation is settled once, and is settled when the
\* process has closed.
C28_FailureUnlessZero ==
    /\ Len(settledWith) <= 1
    /\ promise # "pending" <=> Len(settledWith) = 1
    /\ procState = "closed" => promise # "pending"
    /\ procState = "closed" /\ closeCode # "0" => promise = "rejected"
    /\ promise = "resolved" =>
          /\ procState = "closed" /\ closeCode = "0"
          /\ settledWith[1] = [kind |-> "resolved", value |-> stdout]
    /\ promise = "rejected" => settledWith[1].kind = "rejected"

\* a close with code 1 after two chunks on standard output and none on
\* standard error
C28_Witness ==
    /\ procState = "closed" /\ closeCode = "1" /\ ~errored
    /\ Len(stdout) = 2 /\ stderr = <<>>
    /\ promise = "rejected"
    /\ settledWith = <<[kind |-> "rejected", value |-> FailureMessage(<<>>, stdout)]>>

(* ==================== History Parser (getHistory) ===================== *)
\* A line is the sequence of the words of its trimmed text; a word is a
\* sequence of characters, where a character that no pattern looks into may
\* stand for a run of such characters ("Rev:", "head").  The empty line is <<>>.
HexDigits == {"a", "b", "c", "d", "e", "f",
              "0", "1", "2", "3", "4", "5", "6", "7", "8", "9"}
Word(w) == <<w>>
KwRev == Word("Rev:")
KwParent == Word("Parent:")
KwPath == Word("Path:")
KwMerge == Word("Merge point:")
KwRevisionId == Word("Revision ID:")
KwRevises == Word("Revises:")
KwCreateDate == Word("Create Date:")
KwInfo == Word("INFO")
Base == Word("<base>")
Paren(name) == <<"(", name, ")">>
\* '' and undefined and null: what `||` replaces by its right operand
Empty == <<>>

\* trimmedLine.startsWith(kw) for a keyword that ends a word
StartsWith(line, kw) == Len(line) > 0 /\ line[1] = kw
StartsWithInfoNever(line) == FALSE
\* trimmedLine.startsWith('INFO '): the keyword and more text after a space
StartsWithInfo(line) == Len(line) > 1 /\ line[1] = KwInfo

\* [a-f0-9]+ at the start of a word: its longest prefix of hex digits
RECURSIVE HexPrefixLen(_, _)
HexPrefixLen(w, n) ==
    IF n < Len(w) /\ w[n + 1] \in HexDigits THEN HexPrefixLen(w, n + 1) ELSE n
HexPrefix(w) == SubSeq(w, 1, HexPrefixLen(w, 0))
Suffix(w) == SubSeq(w, HexPrefixLen(w, 0) + 1, Len(w))

\* array.includes(x)
Includes(arr, x) == \E i \in 1..Len(arr) : arr[i] = x

RECURSIVE Reverse(_)
NotReversed(arr) == arr
\* array.reverse()
Reverse(arr) ==
    IF arr = <<>> THEN <<>> ELSE Append(Reverse(Tail(arr)), Head(arr))

\* characters kept by substring(0, 8)
ShortLen == 8
WholeId(id) == id
\* revMatch[1].substring(0, 8)
ShortIdOf(id) == SubSeq(id, 1, IF Len(id) < ShortLen THEN Len(id) ELSE ShortLen)

\* currentRevision = {}: every field unset
EmptyPartial ==
    [id |-> Empty, shortId |-> Empty, message |-> Empty, branchLabels |-> <<>>,
     downRevision |-> Empty, isCurrent |-> FALSE, isHead |-> FALSE,
     isMerge |-> FALSE, date |-> Empty]
ResetNothing(cur) == cur
ResetKeepMerge(cur) == [EmptyPartial EXCEPT !.isMerge = cur.isMerge]
\* currentRevision = {} at a header line
Reset(cur) == EmptyPartial

IsCurrentFromHeader(partial, arr) == partial.isCurrent
\* currentRevisions.includes(partial.id || ''), headRevisions.includes(...)
IsListed(partial, arr) == Includes(arr, partial.id)

\* completeRevisionInfo(partial, currentRevisions, headRevisions); the author
\* field is never set and is left out
CompleteRevisionInfo(partial, cur, heads) ==
    [id |-> partial.id, shortId |-> partial.shortId, message |-> partial.message,
     branchLabels |-> partial.branchLabels,
     downRevision |-> partial.downRevision,
     isCurrent |-> IsListed(partial, cur),
     isHead |-> IsListed(partial, heads),
     isMerge |-> partial.isMerge, date |-> partial.date]

HasIdAlways(partial) == TRUE
\* if (currentRevision.id): a non-empty string
HasId(partial) == partial.id # Empty

\* if (currentRevision.id) { message = messageLines.join('\n').trim(); push }
\* A message is kept as the sequence of its lines, which are trimmed and
\* non-empty.
Flush(acc, cur, heads) ==
    IF HasId(acc.currentRevision)
    THEN Append(acc.revisions,
                CompleteRevisionInfo(
                    [acc.currentRevision EXCEPT
                        !.message = IF Len(acc.messageLines) > 0
                                    THEN acc.messageLines ELSE @],
                    cur, heads))
    ELSE acc.revisions

\* the header line matched /Rev: ([a-f0-9]+)(.*)/: the id is revMatch[1], the
\* words of statusPart are what is left of the line
HeaderMatches(line) == Len(line) > 1 /\ HexPrefix(line[2]) # <<>>
StatusPart(line) ==
    (IF Suffix(line[2]) = <<>> THEN <<>> ELSE <<Suffix(line[2])>>)
        \o SubSeq(line, 3, Len(line))
IsParen(w) == Len(w) = 3 /\ w[1] = "(" /\ w[3] = ")"
\* statusPart.match(/\(([^)]+)\)/g), slice(1, -1), without 'current' and 'head'
BranchLabels(status) ==
    SelectSeq([i \in 1..Len(status) |->
                 IF IsParen(status[i]) THEN <<status[i][2]>> ELSE <<>>],
              LAMBDA l : l # <<>> /\ l # <<"current">> /\ l # <<"head">>)
HeaderPartial(cur, line) ==
    [Reset(cur) EXCEPT
        !.id = HexPrefix(line[2]),
        !.shortId = ShortIdOf(HexPrefix(line[2])),
        !.isCurrent = Includes(StatusPart(line), Paren("current")),
        !.isHead = Includes(StatusPart(line), Paren("head")),
        !.branchLabels = BranchLabels(StatusPart(line))]

\* trimmedLine.match(/Parent: ([a-f0-9]+|<base>)/) succeeded
ParentMatches(line) ==
    Len(line) > 1 /\ (HexPrefix(line[2]) # <<>> \/ line[2][1] = Base[1])
ParentValueRaw(line) == IF HexPrefix(line[2]) # <<>> THEN HexPrefix(line[2]) ELSE Base
\* parentMatch[1] === '<base>' ? null : parentMatch[1]
ParentValue(line) == IF HexPrefix(line[2]) # <<>> THEN HexPrefix(line[2]) ELSE Empty

StartMessageOnly(acc, line) == [acc EXCEPT !.inMessage = TRUE]
StartMessageAnew(acc, line) ==
    [acc EXCEPT !.inMessage = TRUE, !.messageLines = <<line>>]
\* inMessage = true; messageLines.push(trimmedLine)
StartMessage(acc, line) ==
    [acc EXCEPT !.inMessage = TRUE, !.messageLines = Append(@, line)]

\* one pass of the for loop over lines[i] (lines 103-162)
ScanLine(acc, line, cur, heads) ==
    IF StartsWith(line, KwRev)
    THEN [revisions |-> Flush(acc, cur, heads),
          currentRevision |-> IF HeaderMatches(line)
                              THEN HeaderPartial(acc.currentRevision, line)
                              ELSE Reset(acc.currentRevision),
          messageLines |-> <<>>,
          inMessage |-> FALSE]
    ELSE IF StartsWith(line, KwParent)
    THEN IF ParentMatches(line)
         THEN [acc EXCEPT !.currentRevision.downRevision = ParentValue(line)]
         ELSE acc
    ELSE IF StartsWith(line, KwPath)
    THEN [acc EXCEPT !.inMessage = FALSE]
    ELSE IF StartsWith(line, KwMerge)
    THEN [acc EXCEPT !.currentRevision.isMerge = TRUE]
    ELSE IF \/ StartsWith(line, KwRevisionId)
            \/ StartsWith(line, KwRevises)
            \/ StartsWith(line, KwCreateDate)
    THEN [acc EXCEPT
            !.currentRevision.date =
                IF StartsWith(line, KwCreateDate) /\ Len(line) > 1
                THEN Tail(line) ELSE @,
            !.inMessage = FALSE]
    ELSE IF line # <<>> /\ ~acc.inMessage /\ ~StartsWithInfo(line)
    THEN StartMessage(acc, line)
    ELSE IF acc.inMessage /\ line # <<>> /\ ~StartsWithInfo(line)
    THEN [acc EXCEPT !.messageLines = Append(@, line)]
    ELSE IF acc.inMessage /\ line = <<>>
    THEN [acc EXCEPT !.inMessage = FALSE]
    ELSE acc

\* the locals of parseHistory before the loop (lines 96-100)
StartAcc ==
    [revisions |-> <<>>, currentRevision |-> EmptyPartial,
     messageLines |-> <<>>, inMessage |-> FALSE]

KeepLocals(prev) == prev
\* revisions, currentRevision, messageLines and inMessage are locals of
\* parseHistory: every call starts with new ones, whatever a call before left
Locals(prev) == StartAcc

RECURSIVE Scan(_, _, _, _)
Scan(acc, lines, cur, heads) ==
    IF lines = <<>> THEN acc
    ELSE Scan(ScanLine(acc, Head(lines), cur, heads), Tail(lines), cur, heads)

\* parseHistory(output, currentRevisions, headRevisions) on the split lines
ParseHistory(lines, cur, heads) ==
    Reverse(Flush(Scan(StartAcc, lines, cur, heads), cur, heads))

(* ------- parseCurrentRevisions / parseHeadRevisions (same code) ------- *)
RECURSIVE FirstHexAt(_, _)
FirstHexAt(w, i) ==
    IF i > Len(w) THEN 0
    ELSE IF w[i] \in HexDigits THEN i
    ELSE FirstHexAt(w, i + 1)
RunAtStart(w) == HexPrefix(w)
\* the leftmost [a-f0-9]+ inside a word, <<>> when the word has no hex digit
RunIn(w) ==
    IF FirstHexAt(w, 1) = 0 THEN <<>>
    ELSE HexPrefix(SubSeq(w, FirstHexAt(w, 1), Len(w)))

\* line.match(/([a-f0-9]+)/): match[1] of the leftmost match, <<>> for no
\* match.  Words are separated by blanks, so the leftmost match of the line is
\* the leftmost match of its first word that has one.
RECURSIVE LineMatch(_)
LineMatch(line) ==
    IF line = <<>> THEN <<>>
    ELSE IF RunIn(Head(line)) # <<>> THEN RunIn(Head(line))
    ELSE LineMatch(Tail(line))

\* for (const line of lines) { if (match) revisions.push(match[1]) }
RECURSIVE ParseRevisions(_)
ParseRevisions(lines) ==
    IF lines = <<>> THEN <<>>
    ELSE (IF LineMatch(Head(lines)) # <<>> THEN <<LineMatch(Head(lines))>> ELSE <<>>)
            \o ParseRevisions(Tail(lines))

(* --------------------------- inputs ----------------------------------- *)
IdA == <<"a", "b", "c", "d", "e", "f", "0", "1", "2">>
IdB == <<"b", "2">>
Id8 == <<"1", "2", "3", "4", "5", "6", "7", "8">>
NoHex == Word("???")

\* lines of a history blob: headers with and without status words, a header
\* without a hex id, parent lines, a merge-point line, and message text that
\* holds the merge-point words
HistoryLineForms ==
    { <<KwRev, IdA, Paren("head"), Paren("current")>>,
      <<KwRev, IdB>>,
      <<KwRev, Id8, Paren("current")>>,
      <<KwRev, NoHex>>,
      <<KwParent, IdB>>,
      <<KwParent, Base>>,
      <<KwParent, NoHex>>,
      <<KwMerge, IdB>>,
      <<Word("see"), KwMerge>> }

\* longest history blob, in lines
MaxLines == 4

\* lines of a current or heads listing, character by character
HeadMark == <<"(", "h", "e", "a", "d", ")">>
ListingLineForms ==
    { <<IdB>>,
      <<IdB, HeadMark>>,
      <<Id8, IdB>>,
      <<HeadMark, IdB>>,
      <<NoHex>>,
      <<>> }

\* longest listing, in lines
MaxListing == 2

\* ''.split('\n'): an output without text is one empty line
NoOutput == <<<<>>>>

\* getHistory has the three outputs (line 84) and goes on to parse them
InitParser ==
    /\ output \in SeqsUpTo(HistoryLineForms, MaxLines) \ {<<>>}
    /\ currentOutput \in {NoOutput, <<<<IdB, HeadMark>>>>}
    /\ headsOutput = IF currentOutput = NoOutput THEN <<<<IdB, HeadMark>>>> ELSE NoOutput
    /\ currentRevisions = <<>> /\ headRevisions = <<>> /\ history = <<>>
    /\ ghPc = "outputs"
    /\ IdleAnc /\ IdleRw /\ IdlePv /\ IdleAp /\ IdleSc /\ IdleCm /\ IdleWv

InitStatus ==
    /\ output = <<<<KwRev, IdB>>>>
    /\ currentOutput \in SeqsUpTo(ListingLineForms, MaxListing) \ {<<>>}
    /\ headsOutput \in SeqsUpTo(ListingLineForms, MaxListing) \ {<<>>}
    /\ currentRevisions = <<>> /\ headRevisions = <<>> /\ history = <<>>
    /\ ghPc = "outputs"
    /\ IdleAnc /\ IdleRw /\ IdlePv /\ IdleAp /\ IdleSc /\ IdleCm /\ IdleWv

\* const currentRevisions = this.parseCurrentRevisions(currentOutput)
GetCurrentRevisions ==
    /\ ghPc = "outputs"
    /\ currentRevisions' = ParseRevisions(currentOutput)
    /\ ghPc' = "current"
    /\ UNCHANGED <<wvVars, currentOutput, headsOutput, output, headRevisions, history,
                   ancVars, rwVars, pvVars, apVars,
                   scVars, cmVars>>

\* const headRevisions = this.parseHeadRevisions(headsOutput)
GetHeadRevisions ==
    /\ ghPc = "current"
    /\ headRevisions' = ParseRevisions(headsOutput)
    /\ ghPc' = "heads"
    /\ UNCHANGED <<wvVars, currentOutput, headsOutput, output, currentRevisions, history,
                   ancVars, rwVars, pvVars, apVars,
                   scVars, cmVars>>

\* return this.parseHistory(historyOutput, currentRevisions, headRevisions)
GetHistoryReturns ==
    /\ ghPc = "heads"
    /\ history' = ParseHistory(output, currentRevisions, headRevisions)
    /\ ghPc' = "done"
    /\ UNCHANGED <<wvVars, currentOutput, headsOutput, output, currentRevisions,
                   headRevisions, ancVars, rwVars, pvVars, apVars,
                   scVars, cmVars>>

NextGh == GetCurrentRevisions \/ GetHeadRevisions \/ GetHistoryReturns

SpecParser == InitParser /\ [][NextGh]_vars
SpecStatus == InitStatus /\ [][NextGh]_vars

(* ------------- parseHistory line by line, call after call ------------- *)
\* custom revision ids, which start with hex digits: add_users, add_orders
IdU == <<"a", "d", "d", "_", "u">>
IdO == <<"a", "d", "d", "_", "o">>
TextLine == <<Word("Add"), Word("users")>>

\* lines of a verbose history blob: headers, message text, the empty line, the
\* path line, a metadata line and a line of the CLI's logger
VerboseLineForms ==
    { <<KwRev, IdB>>,
      <<KwRev, IdU>>,
      <<KwRev, IdO>>,
      TextLine,
      <<>>,
      <<KwPath, Word("versions/b2.py")>>,
      <<KwCreateDate, Word("2024-01-01")>>,
      <<KwInfo, Word("[alembic]")>> }

\* longest verbose blob, in lines
MaxScanLines == 3
\* calls of parseHistory in one run
MaxParses == 3
\* longest verbose blob when it is the only one parsed
MaxVerboseLines == 4

\* a call that ends inside a message of a merge revision
OtherInput ==
    [lines |-> <<<<KwRev, IdA>>, <<KwMerge, IdB>>, <<Word("Merge"), Word("heads")>>>>,
     cur |-> <<IdA>>, heads |-> <<IdA>>]

InitScan ==
    /\ \E lines \in SeqsUpTo(VerboseLineForms, MaxScanLines) \ {<<>>} :
          scInputs = {[lines |-> lines, cur |-> <<IdB>>, heads |-> <<>>], OtherInput}
    /\ scInput = OtherInput
    /\ scI = 0
    /\ scAcc = StartAcc
    /\ scLog = <<>>
    /\ scPc = "idle"
    /\ IdleAnc /\ IdleRw /\ IdlePv /\ IdleAp /\ IdleGh /\ IdleCm /\ IdleWv

\* one verbose blob, parsed again and again
InitVerbose ==
    /\ \E lines \in SeqsUpTo(VerboseLineForms, MaxVerboseLines) \ {<<>>} :
          /\ scInputs = {[lines |-> lines, cur |-> <<IdB>>, heads |-> <<>>]}
          /\ scInput = [lines |-> lines, cur |-> <<IdB>>, heads |-> <<>>]
    /\ scI = 0
    /\ scAcc = StartAcc
    /\ scLog = <<>>
    /\ scPc = "idle"
    /\ IdleAnc /\ IdleRw /\ IdlePv /\ IdleAp /\ IdleGh /\ IdleCm /\ IdleWv

\* parseHistory is called: split, new locals (lines 96-100)
ScCall(input) ==
    /\ scPc = "idle"
    /\ Len(scLog) < MaxParses
    /\ scInput' = input
    /\ scAcc' = Locals(scAcc)
    /\ scI' = 1
    /\ scPc' = "scan"
    /\ UNCHANGED <<wvVars, scInputs, scLog, ancVars, rwVars, pvVars, apVars, ghVars, cmVars>>

\* one pass of the loop (lines 102-163)
ScLine ==
    /\ scPc = "scan"
    /\ scI <= Len(scInput.lines)
    /\ scAcc' = ScanLine(scAcc, scInput.lines[scI], scInput.cur, scInput.heads)
    /\ scI' = scI + 1
    /\ UNCHANGED <<wvVars, scInputs, scInput, scLog, scPc, ancVars, rwVars, pvVars, apVars,
                   ghVars, cmVars>>

\* the flush after the loop and return revisions.reverse() (lines 165-172)
ScReturn ==
    /\ scPc = "scan"
    /\ scI > Len(scInput.lines)
    /\ scLog' = Append(scLog, [input |-> scInput,
                               result |-> Reverse(Flush(scAcc, scInput.cur, scInput.heads))])
    /\ scPc' = "idle"
    /\ UNCHANGED <<wvVars, scInputs, scInput, scI, scAcc, ancVars, rwVars, pvVars, apVars,
                   ghVars, cmVars>>

NextScan ==
    \/ \E input \in scInputs : ScCall(input)
    \/ ScLine
    \/ ScReturn

SpecScan == InitScan /\ [][NextScan]_vars
SpecVerbose == InitVerbose /\ [][NextScan]_vars

(* ---------------------- claims on the parser -------------------------- *)
IsHeader(line) == Len(line) > 0 /\ line[1] = KwRev
\* the header carries a hex id after 'Rev: '
IsValidHeader(line) == IsHeader(line) /\ Len(line) > 1 /\ line[2][1] \in HexDigits
AllHex(w) == \A c \in 1..Len(w) : w[c] \in HexDigits

\* positions of the valid headers of the blob, in input order
ValidHeaders == SelectSeq([k \in 1..Len(output) |-> k], LAMBDA k : IsValidHeader(output[k]))
\* position of the first header after line k, Len(output) + 1 when there is none
NextHeader(k) ==
    IF \E j \in (k + 1)..Len(output) : IsHeader(output[j])
    THEN CHOOSE j \in (k + 1)..Len(output) :
            IsHeader(output[j]) /\ \A m \in (k + 1)..(j - 1) : ~IsHeader(output[m])
    ELSE Len(output) + 1
\* the lines between the header at k and the next header
Body(k) == (k + 1)..(NextHeader(k) - 1)
\* the record of the i-th valid header, given one record per valid header,
\* last header first
RecordOf(i) == history[Len(history) + 1 - i]
Parsed == ghPc = "done" /\ Len(history) = Len(ValidHeaders)

\* C15: parseHistory returns exactly one node per header line with a valid hex
\* id, in the reverse of the order of those headers in the blob, the last
\* record of the blob included.
C15_OnePerHeaderReversed ==
    ghPc = "done" =>
        /\ Len(history) = Len(ValidHeaders)
        /\ \A i \in 1..Len(ValidHeaders) : RecordOf(i).id = output[ValidHeaders[i]][2]

\* C15 witness: three headers, the last of them on the last line of the blob
C15_Witness ==
    /\ ghPc = "done" /\ Len(history) = 3
    /\ history[1].id # history[2].id /\ history[2].id # history[3].id
    /\ IsValidHeader(output[Len(output)])

\* the blob without the header at k and the lines up to the next header
Without(k) == SubSeq(output, 1, k - 1) \o SubSeq(output, NextHeader(k), Len(output))

\* C14: a 'Rev:' line without a valid hex id produces no record, and the records
\* are those parsed from the blob without that line and the lines up to the
\* next header.
C14_MalformedHeaderSkipped ==
    ghPc = "done" =>
        \A k \in 1..Len(output) :
            (IsHeader(output[k]) /\ ~IsValidHeader(output[k]))
                => history = ParseHistory(Without(k), currentRevisions, headRevisions)

\* C14 witness: a record with a message line, then a header without an id that
\* is followed by a parent or merge-point line
C14_Witness ==
    /\ ghPc = "done" /\ Len(history) = 1 /\ history[1].message # <<>>
    /\ \E k \in 2..Len(output) :
          /\ IsHeader(output[k]) /\ ~IsValidHeader(output[k])
          /\ Body(k) # {}

\* the 'Parent:' lines of the record of header k that carry a hex id or the
\* base marker
ParentLines(k) ==
    {j \in Body(k) :
        /\ Len(output[j]) > 1 /\ output[j][1] = KwParent
        /\ (AllHex(output[j][2]) \/ output[j][2] = Base)}
LastOf(S) == CHOOSE j \in S : \A m \in S : m <= j

\* C16: a record's downRevision is absent when its body has no 'Parent:' line
\* or the 'Parent:' line carries '<base>'; otherwise it is the hex id of the
\* 'Parent:' line of that same record (the last one, if it has several).
C16_DownRevision ==
    Parsed =>
        \A i \in 1..Len(ValidHeaders) :
            LET k == ValidHeaders[i] IN
            RecordOf(i).downRevision =
                IF ParentLines(k) = {} \/ output[LastOf(ParentLines(k))][2] = Base
                THEN Empty
                ELSE output[LastOf(ParentLines(k))][2]

\* C16 witness: a record with a parent id between a record whose 'Parent:' line
\* carries the base marker and a record without a 'Parent:' line
C16_Witness ==
    /\ Parsed /\ Len(history) = 2
    /\ RecordOf(1).downRevision # Empty
    /\ RecordOf(2).downRevision = Empty
    /\ \E j \in Body(ValidHeaders[2]) : output[j] = <<KwParent, Base>>

\* C17 as stated: isMerge is true iff some line between the record's header and
\* the next header contains the merge-point marker.
C17_MergeIffContains ==
    Parsed =>
        \A i \in 1..Len(ValidHeaders) :
            RecordOf(i).isMerge <=>
                \E j \in Body(ValidHeaders[i]) : Includes(output[j], KwMerge)

\* C17 amended: isMerge is true iff some line between the record's header and
\* the next header begins with the merge-point marker.
C17_MergeIffStartsWith ==
    Parsed =>
        \A i \in 1..Len(ValidHeaders) :
            RecordOf(i).isMerge <=>
                \E j \in Body(ValidHeaders[i]) :
                    Len(output[j]) > 0 /\ output[j][1] = KwMerge

\* C17 witness: a merge record followed by a record that is no merge
C17_Witness ==
    /\ Parsed /\ Len(history) = 2
    /\ RecordOf(1).isMerge /\ ~RecordOf(2).isMerge

Elements(arr) == {arr[i] : i \in 1..Len(arr)}

\* C18: every node's isCurrent is true exactly when its id is in the current-set
\* and its isHead exactly when its id is in the head-set, whatever its header
\* line says.
C18_FlagsFromSets ==
    ghPc = "done" =>
        \A n \in 1..Len(history) :
            /\ history[n].isCurrent <=> history[n].id \in Elements(currentRevisions)
            /\ history[n].isHead <=> history[n].id \in Elements(headRevisions)

\* C18 witness: a node marked (current) and (head) in its header that is
\* neither, next to a node without marks that is current
C18_Witness ==
    /\ ghPc = "done"
    /\ \E n, m \in 1..Len(history) :
          /\ history[n].id = IdA /\ ~history[n].isCurrent /\ ~history[n].isHead
          /\ history[m].id = IdB /\ history[m].isCurrent
    /\ <<KwRev, IdA, Paren("head"), Paren("current")>> \in Elements(output)

\* C20: every node's shortId is the first 8 characters of its id, the whole id
\* when that is shorter.
C20_ShortId ==
    ghPc = "done" =>
        \A n \in 1..Len(history) :
            /\ Len(history[n].shortId) <= Len(history[n].id)
            /\ Len(history[n].shortId) = 8 \/ Len(history[n].shortId) = Len(history[n].id)
            /\ Len(history[n].shortId) <= 8
            /\ \A c \in 1..Len(history[n].shortId) :
                    history[n].shortId[c] = history[n].id[c]

\* C20 witness: ids of 2, 8 and 9 characters in one graph
C20_Witness ==
    /\ ghPc = "done"
    /\ {Len(history[n].id) : n \in 1..Len(history)} = {2, 8, 9}
    /\ \E n \in 1..Len(history) : Len(history[n].id) = 9 /\ Len(history[n].shortId) = 8

(* ------------------ claims on the status resolver --------------------- *)
\* the characters of a line: its words with a blank between them
RECURSIVE Chars(_)
Chars(line) ==
    IF line = <<>> THEN <<>>
    ELSE IF Len(line) = 1 THEN line[1]
    ELSE line[1] \o <<" ">> \o Chars(Tail(line))

\* the hex-looking tokens of a line: its words made of hex digits only
HexWords(line) == {line[w] : w \in {v \in 1..Len(line) : AllHex(line[v])}}
\* the leftmost run of hex digits of a text: no hex digit stands before it, none
\* follows it directly
FirstRuns(t) ==
    {SubSeq(t, i, j) : <<i, j>> \in
        {r \in (1..Len(t)) \X (1..Len(t)) :
            /\ r[1] <= r[2]
            /\ \A c \in r[1]..r[2] : t[c] \in HexDigits
            /\ \A c \in 1..(r[1] - 1) : t[c] \notin HexDigits
            /\ (r[2] = Len(t) \/ t[r[2] + 1] \notin HexDigits)}}

AllTokens(lines) == UNION {HexWords(lines[k]) : k \in 1..Len(lines)}
FirstTokens(lines) == UNION {FirstRuns(Chars(lines[k])) : k \in 1..Len(lines)}

\* C19 as stated: every hex-looking token of every line of the current listing
\* is in the current-set and every one of the heads listing is in the head-set.
C19_EveryToken ==
    /\ ghPc \in {"current", "heads", "done"}
            => Elements(currentRevisions) = AllTokens(currentOutput)
    /\ ghPc \in {"heads", "done"}
            => Elements(headRevisions) = AllTokens(headsOutput)

\* C19 amended: the current-set holds the leftmost run of hex digits of every
\* line of the current listing and the head-set that of every line of the heads
\* listing, and nothing else.
C19_FirstTokenOfEachLine ==
    /\ ghPc \in {"current", "heads", "done"}
            => Elements(currentRevisions) = FirstTokens(currentOutput)
    /\ ghPc \in {"heads", "done"}
            => Elements(headRevisions) = FirstTokens(headsOutput)

\* C19 witness: a line with two ids gave its first id only, and a line whose
\* first hex digits are inside the word (head) gave those
C19_Witness ==
    /\ ghPc = "done"
    /\ <<Id8, IdB>> \in Elements(currentOutput)
    /\ Elements(currentRevisions) = {Id8}
    /\ headsOutput = <<<<HeadMark, IdB>>>>
    /\ headRevisions = <<<<"e", "a", "d">>>>

(* ------------------ more claims on the parser ------------------------- *)
\* C21: every record emitted by parseHistory has a non-empty id, for every
\* input blob.
C21_NonEmptyId ==
    ghPc = "done" => \A n \in 1..Len(history) : history[n].id # <<>>

\* C21 witness: a blob that starts with a parent line and holds a header
\* without an id, parsed to one record
C21_Witness ==
    /\ ghPc = "done" /\ Len(history) = 1
    /\ output[1][1] = KwParent
    /\ \E k \in 1..Len(output) : IsHeader(output[k]) /\ ~IsValidHeader(output[k])

\* C22: no two records of the sequence parseHistory returns for one blob have
\* the same id.
C22_UniqueIds ==
    \A m \in 1..Len(scLog) :
        \A a, b \in 1..Len(scLog[m].result) :
            a # b => scLog[m].result[a].id # scLog[m].result[b].id

\* C23: a call of parseHistory with the same blob, current-set and head-set
\* returns the same record sequence, whatever was parsed before or between.
C23_SameInputSameResult ==
    \A m, n \in 1..Len(scLog) :
        scLog[m].input = scLog[n].input => scLog[m].result = scLog[n].result

\* a blob parsed, another one that ends inside a message of a merge revision,
\* and the first blob again
C23_Witness ==
    /\ Len(scLog) = 3
    /\ scLog[1].input = scLog[3].input
    /\ scLog[2].input = OtherInput /\ scLog[1].input # OtherInput
    /\ scLog[1].result # <<>>
    /\ scLog[1].result[1].message # Empty

\* a pass of the loop that starts message accumulation (line 155)
StartsAccumulation == scPc = "scan" /\ scI' = scI + 1 /\ ~scAcc.inMessage /\ scAcc'.inMessage
\* the lines of lines[1..n] since the last header line that are neither
\* keyword lines nor empty nor lines of the logger
IsKeywordLine(line) ==
    \E kw \in {KwRev, KwParent, KwPath, KwMerge, KwRevisionId, KwRevises, KwCreateDate} :
        StartsWith(line, kw)
IsTextLine(line) == line # <<>> /\ ~IsKeywordLine(line) /\ ~StartsWithInfo(line)
RECURSIVE LastHeader(_, _)
LastHeader(lines, n) ==
    IF n = 0 THEN 0 ELSE IF IsHeader(lines[n]) THEN n ELSE LastHeader(lines, n - 1)
TextSinceHeader(lines, n) ==
    SelectSeq(SubSeq(lines, LastHeader(lines, n) + 1, n), IsTextLine)

\* C30 as stated: a line that starts message accumulation becomes the first
\* line of the message: none was collected for the record before it.
C30_StartsAsFirstLine ==
    [][StartsAccumulation => scAcc'.messageLines = <<scInput.lines[scI]>>]_vars

\* C30: a line that starts message accumulation is appended after every text
\* line read since the record's header line; it is the first line of the
\* message only when there was none, and a blank line, a 'Path:' line or a
\* metadata line that ended accumulation earlier discards nothing.
C30_StartsAfterCollected ==
    [][StartsAccumulation =>
         /\ scAcc.messageLines = TextSinceHeader(scInput.lines, scI - 1)
         /\ scAcc'.messageLines = Append(scAcc.messageLines, scInput.lines[scI])]_vars

\* inside a record, accumulation started again after a blank line ended it
C30_Witness ==
    /\ scPc = "scan" /\ scI = 5
    /\ IsValidHeader(scInput.lines[1])
    /\ scInput.lines[3] = <<>>
    /\ scAcc.inMessage
    /\ scAcc.messageLines = <<scInput.lines[2], scInput.lines[4]>>

(* ------------------- the message of a record -------------------------- *)
\* positions of the valid headers of a blob, in input order
ValidHeadersOf(lines) ==
    SelectSeq([k \in 1..Len(lines) |-> k], LAMBDA k : IsValidHeader(lines[k]))
\* position of the first 'Rev:' line after line k, Len(lines) + 1 when none
RECURSIVE NextHeaderOf(_, _)
NextHeaderOf(lines, k) ==
    IF k + 1 > Len(lines) THEN Len(lines) + 1
    ELSE IF IsHeader(lines[k + 1]) THEN k + 1
    ELSE NextHeaderOf(lines, k + 1)
\* a line of the CLI's logger: 'INFO ' and more
IsNoise(line) == Len(line) > 1 /\ line[1] = <<"INFO">>
Keywords ==
    {<<"Rev:">>, <<"Parent:">>, <<"Path:">>, <<"Merge point:">>,
     <<"Revision ID:">>, <<"Revises:">>, <<"Create Date:">>}
\* a non-empty line that starts with no keyword and is no logger line
MayBeMessage(line) == line # <<>> /\ line[1] \notin Keywords /\ ~IsNoise(line)

\* C31: every line of a record's message is a non-empty input line between
\* the record's header and the next header that starts with no keyword and
\* is no 'INFO ' line, and a record with no such line has the message ''.
C31_MessageLinesAreText ==
    \A m \in 1..Len(scLog) :
        LET lines == scLog[m].input.lines
            heads == ValidHeadersOf(lines)
            res == scLog[m].result
        IN  /\ Len(res) = Len(heads)
            /\ \A i \in 1..Len(heads) :
                  LET rec == res[Len(res) + 1 - i]
                      body == (heads[i] + 1)..(NextHeaderOf(lines, heads[i]) - 1)
                  IN  /\ \A n \in 1..Len(rec.message) :
                            \E k \in body :
                                lines[k] = rec.message[n] /\ MayBeMessage(lines[k])
                      /\ (\A k \in body : ~MayBeMessage(lines[k])) => rec.message = <<>>

\* a record whose body holds a text line, a logger line and a metadata line,
\* and the text line is its message
C31_Witness ==
    \E m \in 1..Len(scLog) :
        LET lines == scLog[m].input.lines
        IN  /\ Len(lines) = 4 /\ IsValidHeader(lines[1])
            /\ \E k \in 2..4 : IsNoise(lines[k])
            /\ \E k \in 2..4 : lines[k] # <<>> /\ lines[k][1] = <<"Create Date:">>
            /\ Len(scLog[m].result) = 1
            /\ Len(scLog[m].result[1].message) = 1

\* the loop without the flag: a text line is pushed, every other line is
\* handled as if no message were being collected
ScanLineFlagless(acc, line, cur, heads) ==
    IF MayBeMessage(line)
    THEN [acc EXCEPT !.messageLines = Append(@, line)]
    ELSE [ScanLine([acc EXCEPT !.inMessage = FALSE], line, cur, heads)
            EXCEPT !.inMessage = FALSE]
RECURSIVE ScanFlagless(_, _, _, _)
ScanFlagless(acc, lines, cur, heads) ==
    IF lines = <<>> THEN acc
    ELSE ScanFlagless(ScanLineFlagless(acc, Head(lines), cur, heads),
                      Tail(lines), cur, heads)
\* the message of the record of the header at line k, the flag left out
MessageOf(lines, k) ==
    SelectSeq(SubSeq(lines, k + 1, NextHeaderOf(lines, k) - 1), MayBeMessage)

\* C32: the records parseHistory returns are those of the loop without the
\* inMessage flag, and the message of each is the sequence of all text lines
\* between its header and the next header, in input order.
C32_FlagChangesNothing ==
    \A m \in 1..Len(scLog) :
        LET in == scLog[m].input
            heads == ValidHeadersOf(in.lines)
            res == scLog[m].result
        IN  /\ res = Reverse(Flush(ScanFlagless(StartAcc, in.lines, in.cur, in.heads),
                                   in.cur, in.heads))
            /\ Len(res) = Len(heads)
            /\ \A i \in 1..Len(heads) :
                  res[Len(res) + 1 - i].message = MessageOf(in.lines, heads[i])

\* a record with text before and after a blank line: the flag went up, down and
\* up again, and both lines are the message
C32_Witness ==
    \E m \in 1..Len(scLog) :
        LET lines == scLog[m].input.lines
        IN  /\ Len(lines) = 4 /\ IsValidHeader(lines[1])
            /\ lines[3] = <<>>
            /\ Len(scLog[m].result) = 1
            /\ scLog[m].result[1].message = <<lines[2], lines[4]>>

(* ===================== node clicks in the webview ===================== *)
\* events the script handles: updateRevisions messages, node clicks, drags
MaxEvents == 6

RootA == [id |-> "a1", downRevision |-> Null]
ChildB == [id |-> "b2", downRevision |-> "a1"]
\* message.data of an updateRevisions message: a root alone, a root and its
\* child in both orders, and a history that lists one identifier twice
ShownGraphs == {<<RootA>>, <<ChildB, RootA>>, <<RootA, ChildB>>, <<RootA, RootA>>}

\* the object revisions[p] of the graph rendered last: every updateRevisions
\* message brings new objects
NodeAt(p) == [id |-> revisions[p].id, pos |-> p, gen |-> renders]

SameObject(sel, rev) == sel = rev
\* selectedNode.id !== revision.id, negated
SameNode(sel, rev) == sel.id = rev.id

InitWv ==
    /\ IdleWv
    /\ IdleAnc /\ IdleRw /\ IdlePv /\ IdleAp /\ IdleGh /\ IdleSc /\ IdleCm

\* case 'updateRevisions': revisions = message.data; renderGraph()
UpdateRevisions(data) ==
    /\ events < MaxEvents
    /\ revisions' = data
    /\ renders' = renders + 1
    /\ events' = events + 1
    /\ UNCHANGED <<ancestor, descendant, current, ancPc, ancResult>>
    /\ UNCHANGED <<modifyMode, selectedNode, isDragging, justFinishedDragging,
                   actuallyDragged, clickTimeouts, dragTimeouts, sent, shownMessage>>
    /\ UNCHANGED <<rwVars, pvVars, apVars, ghVars, scVars, cmVars>>

\* handleNodeClick up to its setTimeout
HandleNodeClick(p) ==
    /\ events < MaxEvents
    /\ ~(isDragging \/ justFinishedDragging)
    /\ clickTimeouts' = Append(clickTimeouts, NodeAt(p))
    /\ events' = events + 1
    /\ UNCHANGED <<modifyMode, selectedNode, isDragging, justFinishedDragging,
                   actuallyDragged, renders, dragTimeouts, sent, shownMessage>>
    /\ UNCHANGED <<ancVars, rwVars, pvVars, apVars, ghVars, scVars, cmVars>>

\* the callback handleNodeClick gave to setTimeout
ClickTimeoutFires ==
    /\ clickTimeouts # <<>>
    /\ LET rev == Head(clickTimeouts)
       IN  IF ~modifyMode
           THEN /\ sent' = Append(sent, [type |-> "openRevisionFile",
                                         revisionId |-> rev.id,
                                         newParent |-> "undefined"])
                /\ UNCHANGED <<selectedNode, shownMessage>>
           ELSE IF selectedNode = NoNode
           THEN /\ selectedNode' = rev
                /\ shownMessage' = "Selected"
                /\ UNCHANGED sent
           ELSE IF ~SameNode(selectedNode, rev)
           THEN /\ sent' = Append(sent, [type |-> "modifyDependency",
                                         revisionId |-> selectedNode.id,
                                         newParent |-> rev.id])
                /\ selectedNode' = NoNode
                /\ shownMessage' = "Dependency modification requested..."
           ELSE /\ selectedNode' = NoNode
                /\ shownMessage' = "Selection cleared."
                /\ UNCHANGED sent
    /\ clickTimeouts' = Tail(clickTimeouts)
    /\ UNCHANGED <<modifyMode, isDragging, justFinishedDragging, actuallyDragged,
                   renders, events, dragTimeouts>>
    /\ UNCHANGED <<ancVars, rwVars, pvVars, apVars, ghVars, scVars, cmVars>>

ToggleModifyMode ==
    /\ modifyMode' = ~modifyMode
    /\ selectedNode' = IF modifyMode /\ selectedNode # NoNode THEN NoNode ELSE selectedNode
    /\ shownMessage' = IF modifyMode THEN "Modify mode disabled." ELSE "Modify mode enabled."
    /\ UNCHANGED <<isDragging, justFinishedDragging, actuallyDragged,
                   renders, events, clickTimeouts, dragTimeouts, sent>>
    /\ UNCHANGED <<ancVars, rwVars, pvVars, apVars, ghVars, scVars, cmVars>>

HandleNodeDragStart ==
    /\ revisions # <<>>
    /\ ~modifyMode
    /\ events < MaxEvents
    /\ isDragging' = TRUE
    /\ actuallyDragged' = FALSE
    /\ events' = events + 1
    /\ UNCHANGED <<modifyMode, selectedNode, justFinishedDragging,
                   renders, clickTimeouts, dragTimeouts, sent, shownMessage>>
    /\ UNCHANGED <<ancVars, rwVars, pvVars, apVars, ghVars, scVars, cmVars>>

HandleNodeDragMove ==
    /\ isDragging
    /\ actuallyDragged' = TRUE
    /\ UNCHANGED <<modifyMode, selectedNode, isDragging, justFinishedDragging,
                   renders, events, clickTimeouts, dragTimeouts, sent, shownMessage>>
    /\ UNCHANGED <<ancVars, rwVars, pvVars, apVars, ghVars, scVars, cmVars>>

HandleNodeDragEnd ==
    /\ isDragging
    /\ isDragging' = FALSE
    /\ IF actuallyDragged
       THEN justFinishedDragging' = TRUE /\ dragTimeouts' = dragTimeouts + 1
       ELSE UNCHANGED <<justFinishedDragging, dragTimeouts>>
    /\ actuallyDragged' = FALSE
    /\ UNCHANGED <<modifyMode, selectedNode, renders, events, clickTimeouts, sent,
                   shownMessage>>
    /\ UNCHANGED <<ancVars, rwVars, pvVars, apVars, ghVars, scVars, cmVars>>

\* the callback handleNodeDragEnd gave to setTimeout
DragTimeoutFires ==
    /\ dragTimeouts > 0
    /\ justFinishedDragging' = FALSE
    /\ dragTimeouts' = dragTimeouts - 1
    /\ UNCHANGED <<modifyMode, selectedNode, isDragging, actuallyDragged,
                   renders, events, clickTimeouts, sent, shownMessage>>
    /\ UNCHANGED <<ancVars, rwVars, pvVars, apVars, ghVars, scVars, cmVars>>

NextWv ==
    \/ \E data \in ShownGraphs : UpdateRevisions(data)
    \/ \E p \in 1..Len(revisions) : HandleNodeClick(p)
    \/ ClickTimeoutFires
    \/ ToggleModifyMode
    \/ HandleNodeDragStart
    \/ HandleNodeDragMove
    \/ HandleNodeDragEnd
    \/ DragTimeoutFires

SpecWebview == InitWv /\ [][NextWv]_vars

\* C35: every modifyDependency message the script sends has a revisionId that
\* differs from its newParent, whatever the clicks, toggles and graph updates;
\* and a click on a node with the selected node's id, handled in modify mode,
\* clears the selection and sends nothing.
C35_NoSelfDependency ==
    [][/\ \A i \in 1..Len(sent') :
            sent'[i].type = "modifyDependency" => sent'[i].revisionId # sent'[i].newParent
       /\ (/\ clickTimeouts # <<>> /\ clickTimeouts' = Tail(clickTimeouts)
           /\ modifyMode /\ selectedNode # NoNode
           /\ Head(clickTimeouts).id = selectedNode.id) =>
                (selectedNode' = NoNode /\ sent' = sent)]_vars

\* a node was selected, the graph was rendered again, the node with the same
\* id was clicked and the selection is cleared; a dependency was requested too
C35_Witness ==
    /\ modifyMode /\ selectedNode = NoNode /\ clickTimeouts = <<>>
    /\ shownMessage = "Selection cleared."
    /\ renders = 2
    /\ \E i \in 1..Len(sent) : sent[i].type = "modifyDependency"

====
